---------------------------- MODULE Spec2Model ----------------------------
(***************************************************************************)
(* The deterministic diagnosis engine of DealDoctor: computeSignals        *)
(* (lib/signals.ts), the rule catalog and its helpers (lib/rules.ts) and   *)
(* the two pipelines diagnoseDeal and getAllDiagnoses (rule-catalog        *)
(* engine).                                                                *)
(*                                                                         *)
(* Confidence is a JavaScript number built from the literals 0.6, 0.65,    *)
(* 0.7, 0.1 and 0.15; it is modelled in hundredths, the unit the dashboard *)
(* shows (Math.round(confidence * 100)).  Free text is modelled as the set *)
(* of lower-case phrases that occur in it between word boundaries, a       *)
(* regular expression /\b(a|b|...)\b/i as the set of its alternatives.     *)
(***************************************************************************)
EXTENDS Integers, Sequences, FiniteSets, TLC

(***************************************************************************)
(* Bounds of the model.                                                    *)
(***************************************************************************)
MaxStakeholders == 3
MaxMatches == 3
\* the number of calls of generateActions that are followed
MaxCalls == 4
\* the number of store operations that are followed
MaxOps == 3

(***************************************************************************)
(* Types (types/deal.ts).                                                  *)
(***************************************************************************)
DealStage == {"discovery", "demo", "proposal", "negotiation", "closed_won", "closed_lost"}

DiagnosisCode == {"SINGLE_THREADED", "NO_ECONOMIC_BUYER", "NO_BUSINESS_IMPACT",
                  "NO_NEW_VALUE", "WEAK_URGENCY", "SALES_PROCESS_GAPS"}

Severity == {"low", "medium", "high", "critical"}

(***************************************************************************)
(* Rule catalog and static tables (lib/rules.ts).                          *)
(***************************************************************************)
\* a catalog whose first rule has severity low
DIAGNOSIS_RULES_lowSeverity ==
  << [id |-> "PG-1", code |-> "SALES_PROCESS_GAPS", severity |-> "low"],
     [id |-> "PG-2", code |-> "SALES_PROCESS_GAPS", severity |-> "high"],
     [id |-> "PG-3", code |-> "SALES_PROCESS_GAPS", severity |-> "high"] >>

DIAGNOSIS_RULES ==
  << [id |-> "PG-1", code |-> "SALES_PROCESS_GAPS", severity |-> "medium"],
     [id |-> "PG-2", code |-> "SALES_PROCESS_GAPS", severity |-> "high"],
     [id |-> "PG-3", code |-> "SALES_PROCESS_GAPS", severity |-> "high"],
     [id |-> "ST-1", code |-> "SINGLE_THREADED", severity |-> "medium"],
     [id |-> "ST-2", code |-> "SINGLE_THREADED", severity |-> "high"],
     [id |-> "ST-3", code |-> "SINGLE_THREADED", severity |-> "medium"],
     [id |-> "EB-1", code |-> "NO_ECONOMIC_BUYER", severity |-> "high"],
     [id |-> "EB-2", code |-> "NO_ECONOMIC_BUYER", severity |-> "high"],
     [id |-> "EB-3", code |-> "NO_ECONOMIC_BUYER", severity |-> "medium"],
     [id |-> "BI-1", code |-> "NO_BUSINESS_IMPACT", severity |-> "medium"],
     [id |-> "BI-2", code |-> "NO_BUSINESS_IMPACT", severity |-> "high"],
     [id |-> "BI-3", code |-> "NO_BUSINESS_IMPACT", severity |-> "high"],
     [id |-> "UR-1", code |-> "WEAK_URGENCY", severity |-> "medium"],
     [id |-> "UR-2", code |-> "WEAK_URGENCY", severity |-> "high"],
     [id |-> "UR-3", code |-> "WEAK_URGENCY", severity |-> "high"],
     [id |-> "NV-1", code |-> "NO_NEW_VALUE", severity |-> "medium"],
     [id |-> "NV-2", code |-> "NO_NEW_VALUE", severity |-> "high"],
     [id |-> "NV-3", code |-> "NO_NEW_VALUE", severity |-> "high"] >>

\* rule.condition(signals), one arm per rule of the catalog
\* the catalog with PG-3 firing when either gap is present
condition_pg3Either(id, s) ==
  CASE id = "PG-1" -> ~s.discoverySummaryPresent
    [] id = "PG-2" -> ~s.nextStepScheduled
    [] id = "PG-3" -> ~s.discoverySummaryPresent \/ ~s.nextStepScheduled
    [] id = "ST-1" -> s.contactCount = 1
    [] id = "ST-2" -> s.contactCount = 1 /\ s.daysInStage > 14
    [] id = "ST-3" -> s.contactCount <= 2 /\ ~s.crossFunctionalContactPresent
    [] id = "EB-1" -> ~s.decisionMakerPresent
    [] id = "EB-2" -> ~s.decisionMakerPresent /\ s.daysInStage > 21
    [] id = "EB-3" -> ~s.budgetDiscussed /\ s.daysInStage > 14
    [] id = "BI-1" -> ~s.metricsMentioned
    [] id = "BI-2" -> ~s.metricsMentioned /\ s.daysInStage > 21
    [] id = "BI-3" -> ~s.budgetDiscussed /\ ~s.metricsMentioned
    [] id = "UR-1" -> ~s.timelineDefined
    [] id = "UR-2" -> ~s.timelineDefined /\ ~s.consequenceOfInactionDefined
    [] id = "UR-3" -> s.daysInStage > 21 /\ ~s.timelineDefined
    [] id = "NV-1" -> ~s.newValueSentPostDemo
    [] id = "NV-2" -> ~s.newValueSentPostDemo /\ s.daysSinceLastActivity > 10
    [] id = "NV-3" -> ~s.newValueSentPostDemo /\ s.daysInStage > 14
    [] OTHER -> FALSE

condition(id, s) ==
  CASE id = "PG-1" -> ~s.discoverySummaryPresent
    [] id = "PG-2" -> ~s.nextStepScheduled
    [] id = "PG-3" -> ~s.discoverySummaryPresent /\ ~s.nextStepScheduled
    [] id = "ST-1" -> s.contactCount = 1
    [] id = "ST-2" -> s.contactCount = 1 /\ s.daysInStage > 14
    [] id = "ST-3" -> s.contactCount <= 2 /\ ~s.crossFunctionalContactPresent
    [] id = "EB-1" -> ~s.decisionMakerPresent
    [] id = "EB-2" -> ~s.decisionMakerPresent /\ s.daysInStage > 21
    [] id = "EB-3" -> ~s.budgetDiscussed /\ s.daysInStage > 14
    [] id = "BI-1" -> ~s.metricsMentioned
    [] id = "BI-2" -> ~s.metricsMentioned /\ s.daysInStage > 21
    [] id = "BI-3" -> ~s.budgetDiscussed /\ ~s.metricsMentioned
    [] id = "UR-1" -> ~s.timelineDefined
    [] id = "UR-2" -> ~s.timelineDefined /\ ~s.consequenceOfInactionDefined
    [] id = "UR-3" -> s.daysInStage > 21 /\ ~s.timelineDefined
    [] id = "NV-1" -> ~s.newValueSentPostDemo
    [] id = "NV-2" -> ~s.newValueSentPostDemo /\ s.daysSinceLastActivity > 10
    [] id = "NV-3" -> ~s.newValueSentPostDemo /\ s.daysInStage > 14
    [] OTHER -> FALSE

DIAGNOSIS_EXECUTION_ORDER ==
  << "SALES_PROCESS_GAPS", "SINGLE_THREADED", "NO_ECONOMIC_BUYER",
     "NO_BUSINESS_IMPACT", "WEAK_URGENCY", "NO_NEW_VALUE" >>

\* in hundredths
BASE_CONFIDENCE ==
  [c \in DiagnosisCode |->
     CASE c = "SINGLE_THREADED" -> 60
       [] c = "NO_ECONOMIC_BUYER" -> 70
       [] c = "NO_BUSINESS_IMPACT" -> 65
       [] c = "NO_NEW_VALUE" -> 60
       [] c = "WEAK_URGENCY" -> 65
       [] c = "SALES_PROCESS_GAPS" -> 70]

\* in hundredths; a rule id outside the domain has no bonus (undefined)
CONFIDENCE_BONUSES ==
  [r \in {"EB-2", "NV-2", "PG-3"} |->
     CASE r = "EB-2" -> 10
       [] r = "NV-2" -> 15
       [] r = "PG-3" -> 10]

RuleIds == {DIAGNOSIS_RULES[i].id : i \in 1..Len(DIAGNOSIS_RULES)}

RULE_EVIDENCE ==
  [r \in RuleIds |->
     CASE r = "ST-1" -> "Only 1 contact associated"
       [] r = "ST-2" -> "Only 1 contact and deal stalled for 14+ days"
       [] r = "ST-3" -> "No cross-functional stakeholders identified"
       [] r = "EB-1" -> "No economic buyer identified"
       [] r = "EB-2" -> "No economic buyer and stalled for 21+ days"
       [] r = "EB-3" -> "Budget discussion missing"
       [] r = "BI-1" -> "No quantified impact found in notes"
       [] r = "BI-2" -> "No metrics discussed for 21+ days"
       [] r = "BI-3" -> "ROI or metrics not discussed"
       [] r = "NV-1" -> "No new insights shared post-demo"
       [] r = "NV-2" -> "No new value for 10+ days"
       [] r = "NV-3" -> "Repeated follow-ups without new content"
       [] r = "UR-1" -> "No decision timeline defined"
       [] r = "UR-2" -> "No consequence of delay discussed"
       [] r = "UR-3" -> "Stalled 21+ days without timeline"
       [] r = "PG-1" -> "No discovery summary recorded"
       [] r = "PG-2" -> "No next step scheduled"
       [] r = "PG-3" -> "Missing both discovery and next step"]

(***************************************************************************)
(* Signal extraction (lib/signals.ts).  Each set below lists the           *)
(* alternatives of one regular expression of computeSignals.               *)
(***************************************************************************)
DecisionMakerTitles ==
  {"cfo", "ceo", "vp", "director", "founder", "head of", "chief", "owner", "president"}

CrossFunctionalTitles ==
  {"finance", "operations", "ops", "it", "legal", "procurement", "purchasing"}

NextStepKeywords ==
  {"scheduled", "booked", "confirmed", "meeting on", "call on", "next step",
   "followup", "follow-up", "follow up"}

BudgetKeywords ==
  {"budget", "pricing", "cost", "investment", "spend", "dollars", "$", "contract value"}

MetricsKeywords ==
  {"roi", "revenue", "cost", "savings", "efficiency", "impact", "metrics", "%",
   "million", "thousand", "$", "kpi", "benchmark"}

NewValueKeywords ==
  {"case study", "example", "insight", "benchmark", "update", "new", "whitepaper",
   "report", "data"}

TimelineKeywords ==
  {"deadline", "timeline", "target date", "golive", "go-live", "go live",
   "this quarter", "this month", "this week",
   "by q1", "by q2", "by q3", "by q4", "by jan", "by feb", "by mar", "by apr",
   "by may", "by jun", "by jul", "by aug", "by sep", "by oct", "by nov", "by dec"}

ConsequenceKeywords ==
  {"risk", "consequence", "if we don't", "cost of delay", "miss", "lose",
   "fall behind", "competitor"}

DiscoveryKeywords ==
  {"discovery", "use case", "pain point", "challenge", "problem", "requirement", "need"}

\* regex.test(text): some alternative occurs in the text
test(alternatives, text) == (alternatives \cap text) # {}

\* the value of "no reminder" (reminderDate: null)
NoDate == "null"

\* computeSignals without the stage test of newValueSentPostDemo
computeSignals_anyStage(deal) ==
  LET notes == deal.notes
      stakeholders == deal.stakeholders
      some(P(_)) == \E i \in 1..Len(stakeholders) : P(stakeholders[i])
      isDecisionMaker(s) == s.role = "economic_buyer" \/ test(DecisionMakerTitles, s.title)
      isCrossFunctional(s) == test(CrossFunctionalTitles, s.title)
  IN [ contactCount |-> Len(stakeholders),
       decisionMakerPresent |-> some(isDecisionMaker),
       crossFunctionalContactPresent |-> some(isCrossFunctional),
       daysSinceLastActivity |-> deal.daysInactive,
       daysInStage |-> deal.daysInactive,
       nextStepScheduled |-> test(NextStepKeywords, notes) \/ deal.reminderDate # NoDate,
       budgetDiscussed |-> test(BudgetKeywords, notes),
       metricsMentioned |-> test(MetricsKeywords, notes),
       newValueSentPostDemo |-> test(NewValueKeywords, notes),
       timelineDefined |-> test(TimelineKeywords, notes),
       consequenceOfInactionDefined |-> test(ConsequenceKeywords, notes),
       discoverySummaryPresent |-> test(DiscoveryKeywords, notes) ]

\* computeSignals without the reminder date in nextStepScheduled
computeSignals_notesOnly(deal) ==
  LET notes == deal.notes
      stakeholders == deal.stakeholders
      some(P(_)) == \E i \in 1..Len(stakeholders) : P(stakeholders[i])
      isDecisionMaker(s) == s.role = "economic_buyer" \/ test(DecisionMakerTitles, s.title)
      isCrossFunctional(s) == test(CrossFunctionalTitles, s.title)
  IN [ contactCount |-> Len(stakeholders),
       decisionMakerPresent |-> some(isDecisionMaker),
       crossFunctionalContactPresent |-> some(isCrossFunctional),
       daysSinceLastActivity |-> deal.daysInactive,
       daysInStage |-> deal.daysInactive,
       nextStepScheduled |-> test(NextStepKeywords, notes),
       budgetDiscussed |-> test(BudgetKeywords, notes),
       metricsMentioned |-> test(MetricsKeywords, notes),
       newValueSentPostDemo |->
         (deal.stage = "demo" \/ deal.stage = "proposal" \/ deal.stage = "negotiation")
         /\ test(NewValueKeywords, notes),
       timelineDefined |-> test(TimelineKeywords, notes),
       consequenceOfInactionDefined |-> test(ConsequenceKeywords, notes),
       discoverySummaryPresent |-> test(DiscoveryKeywords, notes) ]

computeSignals(deal) ==
  LET notes == deal.notes
      stakeholders == deal.stakeholders
      some(P(_)) == \E i \in 1..Len(stakeholders) : P(stakeholders[i])
      isDecisionMaker(s) == s.role = "economic_buyer" \/ test(DecisionMakerTitles, s.title)
      isCrossFunctional(s) == test(CrossFunctionalTitles, s.title)
  IN [ contactCount |-> Len(stakeholders),
       decisionMakerPresent |-> some(isDecisionMaker),
       crossFunctionalContactPresent |-> some(isCrossFunctional),
       daysSinceLastActivity |-> deal.daysInactive,
       daysInStage |-> deal.daysInactive,
       nextStepScheduled |-> test(NextStepKeywords, notes) \/ deal.reminderDate # NoDate,
       budgetDiscussed |-> test(BudgetKeywords, notes),
       metricsMentioned |-> test(MetricsKeywords, notes),
       newValueSentPostDemo |->
         (deal.stage = "demo" \/ deal.stage = "proposal" \/ deal.stage = "negotiation")
         /\ test(NewValueKeywords, notes),
       timelineDefined |-> test(TimelineKeywords, notes),
       consequenceOfInactionDefined |-> test(ConsequenceKeywords, notes),
       discoverySummaryPresent |-> test(DiscoveryKeywords, notes) ]

(***************************************************************************)
(* Rule evaluation and the helpers of the aggregator (lib/rules.ts).       *)
(* A Map<DiagnosisCode, RuleMatch[]> is a function whose domain is the set *)
(* of keys.                                                                *)
(***************************************************************************)
EmptyMap == [c \in {} |-> <<>>]

\* the loop of evaluateRules with unshift in place of push
RECURSIVE evaluateRulesFrom_unshift(_, _, _)
evaluateRulesFrom_unshift(i, signals, results) ==
  IF i > Len(DIAGNOSIS_RULES) THEN results
  ELSE LET rule == DIAGNOSIS_RULES[i]
           withKey == IF rule.code \in DOMAIN results THEN results
                      ELSE results @@ (rule.code :> <<>>)
           pushed == [withKey EXCEPT ![rule.code] =
                        <<[ruleId |-> rule.id, severity |-> rule.severity]>> \o @]
       IN IF condition(rule.id, signals)
          THEN evaluateRulesFrom_unshift(i + 1, signals, pushed)
          ELSE evaluateRulesFrom_unshift(i + 1, signals, results)

RECURSIVE evaluateRulesFrom(_, _, _)
evaluateRulesFrom(i, signals, results) ==
  IF i > Len(DIAGNOSIS_RULES) THEN results
  ELSE LET rule == DIAGNOSIS_RULES[i]
           withKey == IF rule.code \in DOMAIN results THEN results
                      ELSE results @@ (rule.code :> <<>>)
           pushed == [withKey EXCEPT ![rule.code] =
                        Append(@, [ruleId |-> rule.id, severity |-> rule.severity])]
       IN IF condition(rule.id, signals)
          THEN evaluateRulesFrom(i + 1, signals, pushed)
          ELSE evaluateRulesFrom(i + 1, signals, results)

evaluateRules(signals) == evaluateRulesFrom(1, signals, EmptyMap)

Min(a, b) == IF a <= b THEN a ELSE b

RECURSIVE sumBonuses(_, _)
sumBonuses(matchedRules, i) ==
  IF i > Len(matchedRules) THEN 0
  ELSE (IF matchedRules[i].ruleId \in DOMAIN CONFIDENCE_BONUSES
        THEN CONFIDENCE_BONUSES[matchedRules[i].ruleId] ELSE 0)
       + sumBonuses(matchedRules, i + 1)

\* calculateConfidence returning a percentage instead of a fraction
calculateConfidence_percent(code, matchedRules) ==
  LET base == BASE_CONFIDENCE[code]
      counted == IF code = "SINGLE_THREADED" \/ code = "NO_BUSINESS_IMPACT"
                 THEN base + 10 * (Len(matchedRules) - 1)
                 ELSE base
      confidence == counted + sumBonuses(matchedRules, 1)
  IN Min(confidence, 100) * 100

\* calculateConfidence giving the rule count bonus to every code
calculateConfidence_everyCode(code, matchedRules) ==
  LET base == BASE_CONFIDENCE[code]
      counted == base + 10 * (Len(matchedRules) - 1)
      confidence == counted + sumBonuses(matchedRules, 1)
  IN Min(confidence, 100)

\* calculateConfidence counting the first matching rule too
calculateConfidence_countFirst(code, matchedRules) ==
  LET base == BASE_CONFIDENCE[code]
      counted == IF code = "SINGLE_THREADED" \/ code = "NO_BUSINESS_IMPACT"
                 THEN base + 10 * Len(matchedRules)
                 ELSE base
      confidence == counted + sumBonuses(matchedRules, 1)
  IN Min(confidence, 100)

\* calculateConfidence with the bonus of 0.15 on every NV rule
calculateConfidence_bonusPerRule(code, matchedRules) ==
  LET base == BASE_CONFIDENCE[code]
      counted == IF code = "SINGLE_THREADED" \/ code = "NO_BUSINESS_IMPACT"
                 THEN base + 10 * (Len(matchedRules) - 1)
                 ELSE base
      perRule == IF code = "NO_NEW_VALUE" THEN 15 * Len(matchedRules) ELSE 0
      confidence == counted + sumBonuses(matchedRules, 1) + perRule
  IN Min(confidence, 100)

calculateConfidence(code, matchedRules) ==
  LET base == BASE_CONFIDENCE[code]
      counted == IF code = "SINGLE_THREADED" \/ code = "NO_BUSINESS_IMPACT"
                 THEN base + 10 * (Len(matchedRules) - 1)
                 ELSE base
      confidence == counted + sumBonuses(matchedRules, 1)
  IN Min(confidence, 100)

\* the severity of the first match instead of the highest
getHighestSeverity_firstMatch(matchedRules) ==
  IF matchedRules = <<>> THEN "medium" ELSE matchedRules[1].severity

getHighestSeverity(matchedRules) ==
  LET severityOrder == <<"high", "medium", "low">>
      present(sev) == \E i \in 1..Len(matchedRules) : matchedRules[i].severity = sev
      hits == {k \in 1..Len(severityOrder) : present(severityOrder[k])}
  IN IF hits = {} THEN "medium"
     ELSE severityOrder[CHOOSE k \in hits : \A j \in hits : k <= j]

\* the loop of collectEvidence without the `seen` test
RECURSIVE collectEvidenceFrom_noSeen(_, _, _, _)
collectEvidenceFrom_noSeen(matchedRules, i, evidence, seen) ==
  IF i > Len(matchedRules) THEN evidence
  ELSE LET id == matchedRules[i].ruleId
       IN IF id \in DOMAIN RULE_EVIDENCE
          THEN collectEvidenceFrom_noSeen(matchedRules, i + 1,
                                          Append(evidence, RULE_EVIDENCE[id]),
                                          seen \cup {RULE_EVIDENCE[id]})
          ELSE collectEvidenceFrom_noSeen(matchedRules, i + 1, evidence, seen)

RECURSIVE collectEvidenceFrom(_, _, _, _)
collectEvidenceFrom(matchedRules, i, evidence, seen) ==
  IF i > Len(matchedRules) THEN evidence
  ELSE LET id == matchedRules[i].ruleId
       IN IF id \in DOMAIN RULE_EVIDENCE /\ RULE_EVIDENCE[id] \notin seen
          THEN collectEvidenceFrom(matchedRules, i + 1,
                                   Append(evidence, RULE_EVIDENCE[id]),
                                   seen \cup {RULE_EVIDENCE[id]})
          ELSE collectEvidenceFrom(matchedRules, i + 1, evidence, seen)

collectEvidence(matchedRules) == collectEvidenceFrom(matchedRules, 1, <<>>, {})

(***************************************************************************)
(* The aggregator (lib/diagnosis-engine.ts, rule-catalog engine).          *)
(***************************************************************************)
\* the null of "Diagnosis | null"
Null == [null |-> TRUE]

\* index of a code in DIAGNOSIS_EXECUTION_ORDER, counted from 0; -1 if absent
indexOf(code) ==
  IF \E k \in 1..Len(DIAGNOSIS_EXECUTION_ORDER) : DIAGNOSIS_EXECUTION_ORDER[k] = code
  THEN (CHOOSE k \in 1..Len(DIAGNOSIS_EXECUTION_ORDER) : DIAGNOSIS_EXECUTION_ORDER[k] = code) - 1
  ELSE -1

\* arr.slice(0, n)
slice(arr, n) == SubSeq(arr, 1, Min(n, Len(arr)))

\* the template of the code with the company name interpolated
generateExplanation(code, deal) == <<code, deal.companyName>>

\* the loop of diagnoseDeal without the `continue` for a code that has no
\* match (matches defaulting to the empty list)
RECURSIVE diagnoseDealBuild_noSkip(_, _, _, _)
diagnoseDealBuild_noSkip(k, ruleMatches, deal, diagnoses) ==
  IF k > Len(DIAGNOSIS_EXECUTION_ORDER) THEN diagnoses
  ELSE LET code == DIAGNOSIS_EXECUTION_ORDER[k]
           matches == IF code \in DOMAIN ruleMatches THEN ruleMatches[code] ELSE <<>>
       IN diagnoseDealBuild_noSkip(k + 1, ruleMatches, deal,
            Append(diagnoses,
                   [code |-> code, severity |-> getHighestSeverity(matches),
                    confidence |-> calculateConfidence(code, matches),
                    evidence |-> collectEvidence(matches),
                    explanation |-> generateExplanation(code, deal),
                    matchedRules |-> [i \in 1..Len(matches) |-> matches[i].ruleId]]))

\* the loop of diagnoseDeal skipping a code with fewer than two matches
RECURSIVE diagnoseDealBuild_skipSingle(_, _, _, _)
diagnoseDealBuild_skipSingle(k, ruleMatches, deal, diagnoses) ==
  IF k > Len(DIAGNOSIS_EXECUTION_ORDER) THEN diagnoses
  ELSE LET code == DIAGNOSIS_EXECUTION_ORDER[k]
       IN IF code \notin DOMAIN ruleMatches \/ Len(ruleMatches[code]) <= 1
          THEN diagnoseDealBuild_skipSingle(k + 1, ruleMatches, deal, diagnoses)
          ELSE LET matches == ruleMatches[code]
               IN diagnoseDealBuild_skipSingle(k + 1, ruleMatches, deal,
                    Append(diagnoses,
                           [code |-> code, severity |-> getHighestSeverity(matches),
                            confidence |-> calculateConfidence(code, matches),
                            evidence |-> collectEvidence(matches),
                            explanation |-> generateExplanation(code, deal),
                            matchedRules |-> [i \in 1..Len(matches) |-> matches[i].ruleId]]))

\* the `for (const code of DIAGNOSIS_EXECUTION_ORDER)` loop of diagnoseDeal
RECURSIVE diagnoseDealBuild(_, _, _, _)
diagnoseDealBuild(k, ruleMatches, deal, diagnoses) ==
  IF k > Len(DIAGNOSIS_EXECUTION_ORDER) THEN diagnoses
  ELSE LET code == DIAGNOSIS_EXECUTION_ORDER[k]
       IN IF code \notin DOMAIN ruleMatches \/ Len(ruleMatches[code]) = 0
          THEN diagnoseDealBuild(k + 1, ruleMatches, deal, diagnoses)
          ELSE LET matches == ruleMatches[code]
                   severity == getHighestSeverity(matches)
                   confidence == calculateConfidence(code, matches)
                   evidence == collectEvidence(matches)
                   matchedRules == [i \in 1..Len(matches) |-> matches[i].ruleId]
               IN diagnoseDealBuild(k + 1, ruleMatches, deal,
                    Append(diagnoses,
                           [code |-> code, severity |-> severity,
                            confidence |-> confidence, evidence |-> evidence,
                            explanation |-> generateExplanation(code, deal),
                            matchedRules |-> matchedRules]))

\* the comparator of diagnoseDeal ordering by execution order before severity
diagnoseDealCompare_orderFirst(a, b) ==
  LET severityOrder == [s \in Severity |->
        CASE s = "high" -> 0 [] s = "medium" -> 1 [] s = "low" -> 2 [] s = "critical" -> -1]
      sevDiff == severityOrder[a.severity] - severityOrder[b.severity]
      orderDiff == indexOf(a.code) - indexOf(b.code)
  IN IF orderDiff # 0 THEN orderDiff
     ELSE IF sevDiff # 0 THEN sevDiff
     ELSE b.confidence - a.confidence

\* the comparator of the sort of diagnoseDeal
diagnoseDealCompare(a, b) ==
  LET severityOrder == [s \in Severity |->
        CASE s = "high" -> 0 [] s = "medium" -> 1 [] s = "low" -> 2 [] s = "critical" -> -1]
      sevDiff == severityOrder[a.severity] - severityOrder[b.severity]
      orderDiff == indexOf(a.code) - indexOf(b.code)
  IN IF sevDiff # 0 THEN sevDiff
     ELSE IF orderDiff # 0 THEN orderDiff
     ELSE b.confidence - a.confidence

\* diagnoses.sort(compare) of diagnoseDeal: Array.prototype.sort is a stable
\* sort, here by insertion
diagnoseDealSort(arr) ==
  LET insert(sorted, x) ==
        LET before == {j \in 1..Len(sorted) : diagnoseDealCompare(sorted[j], x) <= 0}
            p == IF before = {} THEN 0 ELSE CHOOSE j \in before : \A k \in before : k <= j
        IN SubSeq(sorted, 1, p) \o <<x>> \o SubSeq(sorted, p + 1, Len(sorted))
      pass[k \in 0..Len(arr)] == IF k = 0 THEN <<>> ELSE insert(pass[k - 1], arr[k])
  IN pass[Len(arr)]

diagnoseDeal(deal) ==
  LET signals == computeSignals(deal)
      ruleMatches == evaluateRules(signals)
      diagnoses == diagnoseDealBuild(1, ruleMatches, deal, <<>>)
  IN IF DOMAIN ruleMatches = {} THEN Null
     ELSE IF Len(diagnoses) = 0 THEN Null
     ELSE diagnoseDealSort(diagnoses)[1]

\* the `for (const code of DIAGNOSIS_EXECUTION_ORDER)` loop of getAllDiagnoses
RECURSIVE getAllDiagnosesBuild(_, _, _, _)
getAllDiagnosesBuild(k, ruleMatches, deal, diagnoses) ==
  IF k > Len(DIAGNOSIS_EXECUTION_ORDER) THEN diagnoses
  ELSE LET code == DIAGNOSIS_EXECUTION_ORDER[k]
       IN IF code \notin DOMAIN ruleMatches \/ Len(ruleMatches[code]) = 0
          THEN getAllDiagnosesBuild(k + 1, ruleMatches, deal, diagnoses)
          ELSE LET matches == ruleMatches[code]
               IN getAllDiagnosesBuild(k + 1, ruleMatches, deal,
                    Append(diagnoses,
                           [code |-> code,
                            severity |-> getHighestSeverity(matches),
                            confidence |-> calculateConfidence(code, matches),
                            evidence |-> collectEvidence(matches),
                            explanation |-> generateExplanation(code, deal),
                            matchedRules |-> [i \in 1..Len(matches) |-> matches[i].ruleId]]))

\* the comparator of getAllDiagnoses ordering by execution order before severity
getAllDiagnosesCompare_orderFirst(a, b) ==
  LET severityOrder == [s \in Severity |->
        CASE s = "high" -> 0 [] s = "medium" -> 1 [] s = "low" -> 2 [] s = "critical" -> -1]
      sevDiff == severityOrder[a.severity] - severityOrder[b.severity]
      orderDiff == indexOf(a.code) - indexOf(b.code)
  IN IF orderDiff # 0 THEN orderDiff
     ELSE IF sevDiff # 0 THEN sevDiff
     ELSE b.confidence - a.confidence

\* the comparator of getAllDiagnoses with the severity difference reversed
getAllDiagnosesCompare_reversed(a, b) ==
  LET severityOrder == [s \in Severity |->
        CASE s = "high" -> 0 [] s = "medium" -> 1 [] s = "low" -> 2 [] s = "critical" -> -1]
      sevDiff == severityOrder[b.severity] - severityOrder[a.severity]
      orderDiff == indexOf(a.code) - indexOf(b.code)
  IN IF sevDiff # 0 THEN sevDiff
     ELSE IF orderDiff # 0 THEN orderDiff
     ELSE b.confidence - a.confidence

\* the comparator of getAllDiagnoses with the confidence compared first
getAllDiagnosesCompare_confidenceFirst(a, b) ==
  LET severityOrder == [s \in Severity |->
        CASE s = "high" -> 0 [] s = "medium" -> 1 [] s = "low" -> 2 [] s = "critical" -> -1]
      sevDiff == severityOrder[a.severity] - severityOrder[b.severity]
      orderDiff == indexOf(a.code) - indexOf(b.code)
      confDiff == b.confidence - a.confidence
  IN IF confDiff # 0 THEN confDiff
     ELSE IF sevDiff # 0 THEN sevDiff
     ELSE orderDiff

\* the comparator of the sort of getAllDiagnoses
getAllDiagnosesCompare(a, b) ==
  LET severityOrder == [s \in Severity |->
        CASE s = "high" -> 0 [] s = "medium" -> 1 [] s = "low" -> 2 [] s = "critical" -> -1]
      sevDiff == severityOrder[a.severity] - severityOrder[b.severity]
      orderDiff == indexOf(a.code) - indexOf(b.code)
  IN IF sevDiff # 0 THEN sevDiff
     ELSE IF orderDiff # 0 THEN orderDiff
     ELSE b.confidence - a.confidence

\* diagnoses.sort(compare) of getAllDiagnoses: Array.prototype.sort is a
\* stable sort, here by insertion
getAllDiagnosesSort(arr) ==
  LET insert(sorted, x) ==
        LET before == {j \in 1..Len(sorted) : getAllDiagnosesCompare(sorted[j], x) <= 0}
            p == IF before = {} THEN 0 ELSE CHOOSE j \in before : \A k \in before : k <= j
        IN SubSeq(sorted, 1, p) \o <<x>> \o SubSeq(sorted, p + 1, Len(sorted))
      pass[k \in 0..Len(arr)] == IF k = 0 THEN <<>> ELSE insert(pass[k - 1], arr[k])
  IN pass[Len(arr)]

\* getAllDiagnoses without the slice(0, 3)
getAllDiagnoses_noSlice(deal) ==
  LET signals == computeSignals(deal)
      ruleMatches == evaluateRules(signals)
      diagnoses == getAllDiagnosesBuild(1, ruleMatches, deal, <<>>)
  IN IF DOMAIN ruleMatches = {} THEN <<>>
     ELSE getAllDiagnosesSort(diagnoses)

getAllDiagnoses(deal) ==
  LET signals == computeSignals(deal)
      ruleMatches == evaluateRules(signals)
      diagnoses == getAllDiagnosesBuild(1, ruleMatches, deal, <<>>)
  IN IF DOMAIN ruleMatches = {} THEN <<>>
     ELSE slice(getAllDiagnosesSort(diagnoses), 3)

(***************************************************************************)
(* Action generation (lib/diagnosis-engine.ts).  crypto.randomUUID() is    *)
(* modelled as a supply of identifiers that never repeats: the k-th call   *)
(* of the program returns randomUUID(k).                                   *)
(***************************************************************************)
randomUUID_fixed(k) == "uuid-0"

randomUUID(k) == "uuid-" \o ToString(k)

\* the code-specific actions of the switch, n identifiers being taken already
switchActions(code, n) ==
  CASE code \in {"SINGLE_THREADED", "NO_ECONOMIC_BUYER"} ->
         << [ id |-> randomUUID(n + 1),
              action |-> "Multi-thread the deal",
              playbook |-> "Multi-Thread",
              reason |-> "Find Finance, Ops, or VP-level contacts to reduce single-point failure risk",
              expectedImpact |-> "high",
              timeToExecute |-> "2-3 days",
              status |-> "pending" ],
            [ id |-> randomUUID(n + 2),
              action |-> "Request warm intro from existing contact",
              playbook |-> "Multi-Thread",
              reason |-> "Leverage your champion to reach the economic buyer",
              expectedImpact |-> "high",
              timeToExecute |-> "1 day",
              status |-> "pending" ] >>
    [] code \in {"NO_BUSINESS_IMPACT", "WEAK_URGENCY"} ->
         << [ id |-> randomUUID(n + 1),
              action |-> "Re-anchor on business impact",
              playbook |-> "Business Impact",
              reason |-> "Generate industry benchmarks and cost-of-inaction framing",
              expectedImpact |-> "high",
              timeToExecute |-> "1-2 days",
              status |-> "pending" ],
            [ id |-> randomUUID(n + 2),
              action |-> "Create urgency with deadline",
              playbook |-> "Create Urgency",
              reason |-> "Reframe around upcoming deadline or competitive pressure",
              expectedImpact |-> "medium",
              timeToExecute |-> "1 day",
              status |-> "pending" ] >>
    [] code = "NO_NEW_VALUE" ->
         << [ id |-> randomUUID(n + 1),
              action |-> "Share new customer example or insight",
              playbook |-> "New Value",
              reason |-> "Introduce fresh perspective to restart momentum",
              expectedImpact |-> "medium",
              timeToExecute |-> "1 day",
              status |-> "pending" ],
            [ id |-> randomUUID(n + 2),
              action |-> "Expand use case discussion",
              playbook |-> "New Value",
              reason |-> "Explore adjacent problems your solution solves",
              expectedImpact |-> "medium",
              timeToExecute |-> "2 days",
              status |-> "pending" ] >>
    [] code = "SALES_PROCESS_GAPS" ->
         << [ id |-> randomUUID(n + 1),
              action |-> "Complete sales hygiene checklist",
              playbook |-> "Sales Hygiene",
              reason |-> "Document discovery summary and decision process before outreach",
              expectedImpact |-> "high",
              timeToExecute |-> "30 min",
              status |-> "pending" ] >>
    [] OTHER -> <<>>

pushedActions_noReminder(diagnosis, deal, n) == switchActions(diagnosis.code, n)

\* the actions pushed before the final slice: those of the switch, then the
\* follow-up reminder
pushedActions(diagnosis, deal, n) ==
  LET actions == switchActions(diagnosis.code, n)
  IN Append(actions,
            [ id |-> randomUUID(n + Len(actions) + 1),
              action |-> "Set follow-up reminder",
              playbook |-> "Follow-up",
              reason |-> "Ensure consistent touchpoint to prevent deal from going cold",
              expectedImpact |-> "low",
              timeToExecute |-> "1 min",
              status |-> "pending" ])

\* generateActions(diagnosis, deal) called when n identifiers are taken
generateActions_sliceTwo(diagnosis, deal, n) == slice(pushedActions(diagnosis, deal, n), 2)

generateActions(diagnosis, deal, n) == slice(pushedActions(diagnosis, deal, n), 3)

\* the number of identifiers a call of generateActions takes
uuidsOfGenerateActions(diagnosis, deal, n) == Len(pushedActions(diagnosis, deal, n))

(***************************************************************************)
(* The deal store (stores/deals-store.ts).  The list of deals is a         *)
(* sequence; an operation is a function of the list, its arguments and n,  *)
(* the number of identifiers taken so far.                                 *)
(***************************************************************************)
\* the value of `new Date()`
Now == "now"

ActionStatus == {"pending", "in_progress", "completed"}

sampleDeals ==
  << [ id |-> "1",
       companyName |-> "Acme Corp",
       dealValue |-> 75000,
       stage |-> "proposal",
       daysInactive |-> 18,
       stakeholders |->
         << [id |-> "1", name |-> "Sarah Chen", title |-> {"product", "manager"},
             email |-> "sarah@acme.com", role |-> "champion"] >>,
       notes |-> {"had", "a", "great", "demo", "sarah", "loved", "the", "integration",
                  "features", "waiting", "for", "internal", "discussion"},
       diagnosis |-> Null,
       recommendedActions |-> <<>>,
       createdAt |-> "2025-12-01",
       lastActivityAt |-> "2025-12-31",
       reminderDate |-> NoDate ],
     [ id |-> "2",
       companyName |-> "TechStart Inc",
       dealValue |-> 120000,
       stage |-> "negotiation",
       daysInactive |-> 5,
       stakeholders |->
         << [id |-> "2", name |-> "Mike Johnson", title |-> {"cto"},
             email |-> "mike@techstart.io", role |-> "technical_buyer"],
            [id |-> "3", name |-> "Lisa Park", title |-> {"cfo"},
             email |-> "lisa@techstart.io", role |-> "economic_buyer"] >>,
       notes |-> {"roi", "discussion", "went", "well", "they're", "looking", "at", "40",
                  "cost", "reduction", "timeline", "is", "end", "of", "q1", "next step",
                  "next", "step", "security", "review"},
       diagnosis |-> Null,
       recommendedActions |-> <<>>,
       createdAt |-> "2025-11-15",
       lastActivityAt |-> "2026-01-13",
       reminderDate |-> NoDate ],
     [ id |-> "3",
       companyName |-> "GlobalRetail",
       dealValue |-> 250000,
       stage |-> "demo",
       daysInactive |-> 32,
       stakeholders |->
         << [id |-> "4", name |-> "James Wilson", title |-> {"it", "manager"},
             email |-> "james@globalretail.com", role |-> "influencer"] >>,
       notes |-> {"demo", "completed", "they", "said", "they'll", "revisit", "next",
                  "quarter", "no", "budget", "discussion", "yet"},
       diagnosis |-> Null,
       recommendedActions |-> <<>>,
       createdAt |-> "2025-10-20",
       lastActivityAt |-> "2025-12-17",
       reminderDate |-> NoDate ] >>

\* an addDeal that stores the diagnosis without the actions
newDeal_noActions(dealData, n) ==
  LET created == [ id |-> randomUUID(n + 1), createdAt |-> Now,
                   diagnosis |-> Null, recommendedActions |-> <<>> ] @@ dealData
      diagnosis == diagnoseDeal(created)
  IN IF diagnosis # Null
     THEN [created EXCEPT !.diagnosis = diagnosis]
     ELSE created

\* the deal addDeal builds: { ...dealData, id, createdAt, diagnosis,
\* recommendedActions }, then the diagnosis on creation
newDeal(dealData, n) ==
  LET created == [ id |-> randomUUID(n + 1), createdAt |-> Now,
                   diagnosis |-> Null, recommendedActions |-> <<>> ] @@ dealData
      diagnosis == diagnoseDeal(created)
  IN IF diagnosis # Null
     THEN [created EXCEPT !.diagnosis = diagnosis,
                          !.recommendedActions = generateActions(diagnosis, created, n + 1)]
     ELSE created

addDeal(list, dealData, n) == Append(list, newDeal(dealData, n))

\* the number of identifiers addDeal takes
uuidsOfAddDeal(dealData, n) ==
  LET created == newDeal(dealData, n)
  IN IF created.diagnosis # Null
     THEN 1 + uuidsOfGenerateActions(created.diagnosis, created, n + 1)
     ELSE 1

\* { ...deal, ...updates }
updateDeal(list, id, updates) ==
  [i \in 1..Len(list) |-> IF list[i].id = id THEN updates @@ list[i] ELSE list[i]]

deleteDeal(list, id) ==
  LET keep(d) == d.id # id
  IN SelectSeq(list, keep)

\* get().deals.find((d) => d.id === id): the position of the first such deal, 0 if none
find(list, id) ==
  LET hits == {i \in 1..Len(list) : list[i].id = id}
  IN IF hits = {} THEN 0 ELSE CHOOSE i \in hits : \A j \in hits : i <= j

\* a runDiagnosis that appends the new actions to the previous ones
runDiagnosis_append(list, id, n) ==
  LET at == find(list, id)
      deal == list[at]
      diagnosis == diagnoseDeal(deal)
      actions == IF diagnosis # Null THEN generateActions(diagnosis, deal, n) ELSE <<>>
  IN IF at = 0 THEN list
     ELSE [i \in 1..Len(list) |->
             IF list[i].id = id
             THEN [list[i] EXCEPT !.diagnosis = diagnosis,
                                  !.recommendedActions = @ \o actions]
             ELSE list[i]]

\* a runDiagnosis that carries the previous statuses over to the new actions
runDiagnosis_keepStatus(list, id, n) ==
  LET at == find(list, id)
      deal == list[at]
      diagnosis == diagnoseDeal(deal)
      actions == IF diagnosis # Null THEN generateActions(diagnosis, deal, n) ELSE <<>>
      merged == [k \in DOMAIN actions |->
                   IF k \in DOMAIN deal.recommendedActions
                   THEN [actions[k] EXCEPT !.status = deal.recommendedActions[k].status]
                   ELSE actions[k]]
  IN IF at = 0 THEN list
     ELSE [i \in 1..Len(list) |->
             IF list[i].id = id
             THEN [list[i] EXCEPT !.diagnosis = diagnosis, !.recommendedActions = merged]
             ELSE list[i]]

\* a runDiagnosis that also stamps the deal's last activity
runDiagnosis_touchActivity(list, id, n) ==
  LET at == find(list, id)
      deal == list[at]
      diagnosis == diagnoseDeal(deal)
      actions == IF diagnosis # Null THEN generateActions(diagnosis, deal, n) ELSE <<>>
  IN IF at = 0 THEN list
     ELSE [i \in 1..Len(list) |->
             IF list[i].id = id
             THEN [list[i] EXCEPT !.diagnosis = diagnosis, !.recommendedActions = actions,
                                  !.lastActivityAt = Now]
             ELSE list[i]]

\* a runDiagnosis without the test d.id === id in its map
runDiagnosis_allDeals(list, id, n) ==
  LET at == find(list, id)
      deal == list[at]
      diagnosis == diagnoseDeal(deal)
      actions == IF diagnosis # Null THEN generateActions(diagnosis, deal, n) ELSE <<>>
  IN IF at = 0 THEN list
     ELSE [i \in 1..Len(list) |->
             [list[i] EXCEPT !.diagnosis = diagnosis, !.recommendedActions = actions]]

runDiagnosis(list, id, n) ==
  LET at == find(list, id)
      deal == list[at]
      diagnosis == diagnoseDeal(deal)
      actions == IF diagnosis # Null THEN generateActions(diagnosis, deal, n) ELSE <<>>
  IN IF at = 0 THEN list
     ELSE [i \in 1..Len(list) |->
             IF list[i].id = id
             THEN [list[i] EXCEPT !.diagnosis = diagnosis, !.recommendedActions = actions]
             ELSE list[i]]

\* the number of identifiers runDiagnosis takes
uuidsOfRunDiagnosis(list, id, n) ==
  LET at == find(list, id)
      diagnosis == diagnoseDeal(list[at])
  IN IF at = 0 \/ diagnosis = Null THEN 0
     ELSE uuidsOfGenerateActions(diagnosis, list[at], n)

updateActionStatus(list, dealId, actionId, status) ==
  [i \in 1..Len(list) |->
     IF list[i].id = dealId
     THEN LET actions == list[i].recommendedActions
          IN [list[i] EXCEPT !.recommendedActions =
                [k \in 1..Len(actions) |-> IF actions[k].id = actionId
                                            THEN [actions[k] EXCEPT !.status = status]
                                            ELSE actions[k]]]
     ELSE list[i]]

\* a setReminder that drops the diagnosis results it has made stale
setReminder_resetDiagnosis(list, dealId, date) ==
  [i \in 1..Len(list) |->
     IF list[i].id = dealId
     THEN [list[i] EXCEPT !.reminderDate = date, !.diagnosis = Null,
                          !.recommendedActions = <<>>]
     ELSE list[i]]

setReminder(list, dealId, date) ==
  [i \in 1..Len(list) |->
     IF list[i].id = dealId THEN [list[i] EXCEPT !.reminderDate = date] ELSE list[i]]

(***************************************************************************)
(* The re-run of the diagnosis panel (DealDiagnosisPanel.handleRunDiagnosis): *)
(* a timer of 800 ms is started, and when it fires runDiagnosis is called  *)
(* with the id of the deal the panel was rendered with.  A timer is the    *)
(* record of that id and of the deal as it was when the re-run was asked.  *)
(***************************************************************************)
startTimer(deal) == [id |-> deal.id, requested |-> deal]

\* a re-run that diagnoses the deal the panel was rendered with
timerFires_fromSnapshot(list, timer, n) ==
  LET diagnosis == diagnoseDeal(timer.requested)
      actions == IF diagnosis # Null
                 THEN generateActions(diagnosis, timer.requested, n)
                 ELSE <<>>
  IN [i \in 1..Len(list) |->
        IF list[i].id = timer.id
        THEN [list[i] EXCEPT !.diagnosis = diagnosis, !.recommendedActions = actions]
        ELSE list[i]]

timerFires(list, timer, n) == runDiagnosis(list, timer.id, n)

(***************************************************************************)
(* Inputs.  Stakeholders are those of the sample deals of the store; only  *)
(* the length of the list and the existence of a matching entry are read,  *)
(* so a list is enumerated once per multiset of its entries.               *)
(***************************************************************************)
StakeholderSamples ==
  << [id |-> "1", name |-> "Sarah Chen", title |-> {"product", "manager"}, role |-> "champion"],
     [id |-> "3", name |-> "Lisa Park", title |-> {"cfo"}, role |-> "economic_buyer"],
     [id |-> "4", name |-> "James Wilson", title |-> {"it", "manager"}, role |-> "influencer"] >>

StakeholderLists ==
  LET picks == UNION {[1..n -> 1..Len(StakeholderSamples)] : n \in 0..MaxStakeholders}
      ordered == {p \in picks : \A i \in 1..(Len(p) - 1) : p[i] <= p[i + 1]}
  IN {[i \in 1..Len(p) |-> StakeholderSamples[p[i]]] : p \in ordered}

\* one phrase for each text-derived signal
NoteWords == {"next step", "budget", "roi", "case study", "timeline", "risk", "discovery"}

\* values on both sides of the thresholds 10, 14 and 21
DaySamples == {0, 10, 11, 14, 15, 20, 21, 22}

StageSamples == {"discovery", "demo"}

\* deals of the two sampled stages over all days, stakeholders and notes,
\* and deals of the other stages with 0 or 22 days inactive and notes that
\* hold no keyword or all of them
DealInputs ==
  [ id : {"1"}, companyName : {"Acme Corp"},
    stage : StageSamples, daysInactive : DaySamples,
    stakeholders : StakeholderLists, notes : SUBSET NoteWords,
    reminderDate : {NoDate} ]
  \cup
  [ id : {"1"}, companyName : {"Acme Corp"},
    stage : DealStage \ StageSamples, daysInactive : {0, 22},
    stakeholders : StakeholderLists, notes : {{}, NoteWords},
    reminderDate : {NoDate} ]

\* signal sets, as computeSignals can return them: both day counters are the
\* deal's daysInactive, and no stakeholder means no matching stakeholder
SignalInputs ==
  {s \in [ contactCount : 0..MaxStakeholders,
           decisionMakerPresent : BOOLEAN,
           crossFunctionalContactPresent : BOOLEAN,
           daysSinceLastActivity : DaySamples,
           daysInStage : DaySamples,
           nextStepScheduled : BOOLEAN,
           budgetDiscussed : BOOLEAN,
           metricsMentioned : BOOLEAN,
           newValueSentPostDemo : BOOLEAN,
           timelineDefined : BOOLEAN,
           consequenceOfInactionDefined : BOOLEAN,
           discoverySummaryPresent : BOOLEAN ] :
     /\ s.daysSinceLastActivity = s.daysInStage
     /\ s.contactCount = 0 =>
          ~s.decisionMakerPresent /\ ~s.crossFunctionalContactPresent}

\* rule matches handed to the helpers on their own: matches of the catalog,
\* and matches of rules and severities the catalog does not hold yet
MatchSamples ==
  { [ruleId |-> "EB-1", severity |-> "high"],
    [ruleId |-> "EB-2", severity |-> "high"],
    [ruleId |-> "EB-3", severity |-> "medium"],
    [ruleId |-> "NV-2", severity |-> "high"],
    [ruleId |-> "PG-3", severity |-> "high"],
    [ruleId |-> "ST-1", severity |-> "medium"],
    [ruleId |-> "XX-1", severity |-> "low"],
    [ruleId |-> "XX-2", severity |-> "critical"] }

MatchLists == UNION {[1..n -> MatchSamples] : n \in 0..MaxMatches}

(***************************************************************************)
(* State.  snapshot, primary, listed: a deal and the results of the two    *)
(* pipelines on it.  sigInput, matchMap, scores: a signal set, its rule    *)
(* matches and the confidence of each matched code.  unitCode ..           *)
(* unitEvidence: the arguments and results of the helpers called on their  *)
(* own.  called: the operations applied so far.                            *)
(***************************************************************************)
\* deals and diagnoses handed to generateActions: every diagnosis the
\* pipeline lists for a deal with at most one stakeholder
ActionDeals ==
  {d \in DealInputs : /\ Len(d.stakeholders) <= 1
                      /\ \A k \in DOMAIN d.stakeholders : d.stakeholders[k].id = "1"
                      /\ d.daysInactive \in {0, 22}
                      /\ d.notes \in {{}, {"discovery", "next step"}, NoteWords \ {"case study"}}}

ActionInputs ==
  UNION {{[diagnosis |-> getAllDiagnoses(d)[i], deal |-> d] :
            i \in DOMAIN getAllDiagnoses(d)} : d \in ActionDeals}

\* what the dialog hands to addDeal (AddDealDialog.tsx): a deal with every
\* signal in place, a deal entered with one contact and few notes, and a
\* deal whose notes lack only the discovery summary and the next step
NewDealInputs ==
  { [ companyName |-> "Initech",
      dealValue |-> 50000,
      stage |-> "demo",
      daysInactive |-> 0,
      stakeholders |->
        << [id |-> "s-1", name |-> "Lisa Park", title |-> {"cfo"},
            email |-> "", role |-> "economic_buyer"],
           [id |-> "s-2", name |-> "James Wilson", title |-> {"it", "manager"},
            email |-> "", role |-> "influencer"] >>,
      notes |-> NoteWords,
      lastActivityAt |-> Now,
      reminderDate |-> NoDate ],
    [ companyName |-> "Globex",
      dealValue |-> 0,
      stage |-> "discovery",
      daysInactive |-> 0,
      stakeholders |->
        << [id |-> "s-3", name |-> "Sarah Chen", title |-> {"product", "manager"},
            email |-> "", role |-> "champion"] >>,
      notes |-> {"discovery", "next step"},
      lastActivityAt |-> Now,
      reminderDate |-> NoDate ],
    [ companyName |-> "Hooli",
      dealValue |-> 90000,
      stage |-> "demo",
      daysInactive |-> 0,
      stakeholders |->
        << [id |-> "s-4", name |-> "Lisa Park", title |-> {"cfo"},
            email |-> "", role |-> "economic_buyer"],
           [id |-> "s-5", name |-> "James Wilson", title |-> {"it", "manager"},
            email |-> "", role |-> "influencer"] >>,
      notes |-> NoteWords \ {"discovery", "next step"},
      lastActivityAt |-> Now,
      reminderDate |-> NoDate ] }

\* partial deals handed to updateDeal (updates: Partial<Deal>)
UpdateSamples ==
  { [notes |-> NoteWords],
    [diagnosis |-> Null, recommendedActions |-> <<>>] }

\* the dates handed to setReminder (DealCard.tsx): three days from now, or null
ReminderDates == {"now+3d", NoDate}

\* an id no deal of the store has
MissingId == "0"

\* the status a click on an action moves it to (handleActionClick)
nextStatus(status) ==
  CASE status = "pending" -> "in_progress"
    [] status = "in_progress" -> "completed"
    [] OTHER -> "pending"

VARIABLES snapshot, primary, listed,
          sigInput, matchMap, scores,
          unitCode, unitMatches, unitConfidence, unitSeverity, unitEvidence,
          called,
          genDiagnosis, genActions, genTaken, genIssued, genCalls,
          deals, uuid, issued, ops, lastOp, timers

engineVars == <<snapshot, primary, listed>>
rulesVars == <<sigInput, matchMap, scores>>
unitVars == <<unitCode, unitMatches, unitConfidence, unitSeverity, unitEvidence>>
actionsVars == <<genDiagnosis, genActions, genTaken, genIssued, genCalls>>
storeVars == <<deals, uuid, issued, ops, lastOp, timers>>
vars == <<engineVars, rulesVars, unitVars, called, actionsVars, storeVars>>

\* the values of the variables a specification does not use
EngineIdle == snapshot = Null /\ primary = Null /\ listed = <<>>
RulesIdle == sigInput = Null /\ matchMap = EmptyMap /\ scores = EmptyMap
UnitIdle ==
  /\ unitCode = "" /\ unitMatches = <<>>
  /\ unitConfidence = 0 /\ unitSeverity = "" /\ unitEvidence = <<>>
ActionsIdle ==
  /\ genDiagnosis = Null /\ genActions = <<>>
  /\ genTaken = 0 /\ genIssued = {} /\ genCalls = 0
StoreIdle ==
  /\ deals = <<>> /\ uuid = 0 /\ issued = {} /\ ops = 0 /\ lastOp = Null
  /\ timers = {}

(***************************************************************************)
(* Specification Spec: a deal snapshot is handed to the two pipelines.     *)
(***************************************************************************)
Init ==
  /\ snapshot \in DealInputs
  /\ primary = Null
  /\ listed = <<>>
  /\ called = {}
  /\ RulesIdle /\ UnitIdle /\ ActionsIdle /\ StoreIdle

DiagnoseDeal ==
  /\ snapshot # Null
  /\ "diagnoseDeal" \notin called
  /\ primary' = diagnoseDeal(snapshot)
  /\ called' = called \cup {"diagnoseDeal"}
  /\ UNCHANGED <<snapshot, listed, rulesVars, unitVars, actionsVars, storeVars>>

GetAllDiagnoses ==
  /\ snapshot # Null
  /\ "getAllDiagnoses" \notin called
  /\ listed' = getAllDiagnoses(snapshot)
  /\ called' = called \cup {"getAllDiagnoses"}
  /\ UNCHANGED <<snapshot, primary, rulesVars, unitVars, actionsVars, storeVars>>

Next == DiagnoseDeal \/ GetAllDiagnoses

Spec == Init /\ [][Next]_vars

(***************************************************************************)
(* Specification SpecRules: a signal set is handed to evaluateRules, and   *)
(* each code's matches to calculateConfidence, as the loop of the          *)
(* aggregator does.                                                        *)
(***************************************************************************)
InitRules ==
  /\ sigInput \in SignalInputs
  /\ matchMap = EmptyMap
  /\ scores = EmptyMap
  /\ called = {}
  /\ EngineIdle /\ UnitIdle /\ ActionsIdle /\ StoreIdle

EvaluateRules ==
  /\ sigInput # Null
  /\ "evaluateRules" \notin called
  /\ matchMap' = evaluateRules(sigInput)
  /\ called' = called \cup {"evaluateRules"}
  /\ UNCHANGED <<sigInput, scores, engineVars, unitVars, actionsVars, storeVars>>

ScoreMatches ==
  /\ "evaluateRules" \in called
  /\ "calculateConfidence" \notin called
  /\ scores' = [c \in DOMAIN matchMap |-> calculateConfidence(c, matchMap[c])]
  /\ called' = called \cup {"calculateConfidence"}
  /\ UNCHANGED <<sigInput, matchMap, engineVars, unitVars, actionsVars, storeVars>>

NextRules == EvaluateRules \/ ScoreMatches

SpecRules == InitRules /\ [][NextRules]_vars

(***************************************************************************)
(* Specification SpecUnit: the helpers of lib/rules.ts called on their own *)
(* with a code and a list of rule matches.                                 *)
(***************************************************************************)
InitUnit ==
  /\ unitCode \in DiagnosisCode
  /\ unitMatches \in MatchLists
  /\ unitConfidence = 0
  /\ unitSeverity = ""
  /\ unitEvidence = <<>>
  /\ called = {}
  /\ EngineIdle /\ RulesIdle /\ ActionsIdle /\ StoreIdle

CalculateConfidence ==
  /\ unitCode # ""
  /\ "calculateConfidence" \notin called
  /\ unitConfidence' = calculateConfidence(unitCode, unitMatches)
  /\ called' = called \cup {"calculateConfidence"}
  /\ UNCHANGED <<unitCode, unitMatches, unitSeverity, unitEvidence, engineVars, rulesVars, actionsVars, storeVars>>

GetHighestSeverity ==
  /\ unitCode # ""
  /\ "getHighestSeverity" \notin called
  /\ unitSeverity' = getHighestSeverity(unitMatches)
  /\ called' = called \cup {"getHighestSeverity"}
  /\ UNCHANGED <<unitCode, unitMatches, unitConfidence, unitEvidence, engineVars, rulesVars, actionsVars, storeVars>>

CollectEvidence ==
  /\ unitCode # ""
  /\ "collectEvidence" \notin called
  /\ unitEvidence' = collectEvidence(unitMatches)
  /\ called' = called \cup {"collectEvidence"}
  /\ UNCHANGED <<unitCode, unitMatches, unitConfidence, unitSeverity, engineVars, rulesVars, actionsVars, storeVars>>

NextUnit == CalculateConfidence \/ GetHighestSeverity \/ CollectEvidence

SpecUnit == InitUnit /\ [][NextUnit]_vars

(***************************************************************************)
(* Specification SpecActions: generateActions is called again and again    *)
(* with a diagnosis of the pipeline.  genTaken counts the identifiers      *)
(* taken from crypto.randomUUID(); genIssued holds the identifiers the     *)
(* calls before the last one returned.                                     *)
(***************************************************************************)
actionIds(actions) == {actions[i].id : i \in DOMAIN actions}

actionTexts(actions) ==
  [i \in DOMAIN actions |-> [actions[i] EXCEPT !.id = "", !.status = ""]]

InitActions ==
  /\ genDiagnosis = Null
  /\ genActions = <<>>
  /\ genTaken = 0
  /\ genIssued = {}
  /\ genCalls = 0
  /\ called = {}
  /\ EngineIdle /\ RulesIdle /\ UnitIdle /\ StoreIdle

GenerateActions ==
  /\ genCalls < MaxCalls
  /\ \E input \in ActionInputs :
       /\ genDiagnosis' = input.diagnosis
       /\ genActions' = generateActions(input.diagnosis, input.deal, genTaken)
       /\ genTaken' = genTaken + uuidsOfGenerateActions(input.diagnosis, input.deal, genTaken)
  /\ genIssued' = genIssued \cup actionIds(genActions)
  /\ genCalls' = genCalls + 1
  /\ UNCHANGED <<engineVars, rulesVars, unitVars, called, storeVars>>

NextActions == GenerateActions

SpecActions == InitActions /\ [][NextActions]_vars

(***************************************************************************)
(* Specification SpecStore: the operations of the deal store on the        *)
(* persisted list, which starts as the three sample deals.  uuid counts    *)
(* the identifiers taken, issued holds the action identifiers handed out   *)
(* so far, lastOp names the last operation and the deal it was given.      *)
(***************************************************************************)
dealIds == {deals[i].id : i \in DOMAIN deals}

dealWithId(list, id) == list[find(list, id)]

InitStore ==
  /\ deals = sampleDeals
  /\ uuid = 0
  /\ issued = {}
  /\ ops = 0
  /\ lastOp = [op |-> "init", id |-> ""]
  /\ timers = {}
  /\ called = {}
  /\ EngineIdle /\ RulesIdle /\ UnitIdle /\ ActionsIdle

AddDeal ==
  /\ ops < MaxOps
  /\ \E dealData \in NewDealInputs :
       LET created == newDeal(dealData, uuid)
       IN /\ deals' = addDeal(deals, dealData, uuid)
          /\ uuid' = uuid + uuidsOfAddDeal(dealData, uuid)
          /\ issued' = issued \cup actionIds(created.recommendedActions)
          /\ lastOp' = [op |-> "addDeal", id |-> created.id]
  /\ ops' = ops + 1
  /\ UNCHANGED <<timers, engineVars, rulesVars, unitVars, called, actionsVars>>

UpdateDeal ==
  /\ ops < MaxOps
  /\ \E id \in dealIds, updates \in UpdateSamples :
       /\ deals' = updateDeal(deals, id, updates)
       /\ lastOp' = [op |-> "updateDeal", id |-> id]
  /\ ops' = ops + 1
  /\ UNCHANGED <<uuid, issued, timers, engineVars, rulesVars, unitVars, called, actionsVars>>

DeleteDeal ==
  /\ ops < MaxOps
  /\ \E id \in dealIds :
       /\ deals' = deleteDeal(deals, id)
       /\ lastOp' = [op |-> "deleteDeal", id |-> id]
  /\ ops' = ops + 1
  /\ UNCHANGED <<uuid, issued, timers, engineVars, rulesVars, unitVars, called, actionsVars>>

RunDiagnosis ==
  /\ ops < MaxOps
  /\ \E id \in dealIds \cup {MissingId} :
       LET after == runDiagnosis(deals, id, uuid)
       IN /\ deals' = after
          /\ uuid' = uuid + uuidsOfRunDiagnosis(deals, id, uuid)
          /\ issued' = IF find(deals, id) = 0 THEN issued
                       ELSE issued \cup actionIds(dealWithId(after, id).recommendedActions)
          /\ lastOp' = [op |-> "runDiagnosis", id |-> id]
  /\ ops' = ops + 1
  /\ UNCHANGED <<timers, engineVars, rulesVars, unitVars, called, actionsVars>>

UpdateActionStatus ==
  /\ ops < MaxOps
  /\ \E i \in DOMAIN deals :
       \E k \in DOMAIN deals[i].recommendedActions :
         LET action == deals[i].recommendedActions[k]
         IN /\ deals' = updateActionStatus(deals, deals[i].id, action.id,
                                           nextStatus(action.status))
            /\ lastOp' = [op |-> "updateActionStatus", id |-> deals[i].id]
  /\ ops' = ops + 1
  /\ UNCHANGED <<uuid, issued, timers, engineVars, rulesVars, unitVars, called, actionsVars>>

SetReminder ==
  /\ ops < MaxOps
  /\ \E id \in dealIds \cup {MissingId}, date \in ReminderDates :
       /\ deals' = setReminder(deals, id, date)
       /\ lastOp' = [op |-> "setReminder", id |-> id]
  /\ ops' = ops + 1
  /\ UNCHANGED <<uuid, issued, timers, engineVars, rulesVars, unitVars, called, actionsVars>>

NextStore ==
  \/ AddDeal \/ UpdateDeal \/ DeleteDeal
  \/ RunDiagnosis \/ UpdateActionStatus \/ SetReminder

SpecStore == InitStore /\ [][NextStore]_vars

(***************************************************************************)
(* Specification SpecStoreCore: the store under the operations other than  *)
(* updateDeal.                                                             *)
(***************************************************************************)
NextStoreCore ==
  \/ AddDeal \/ DeleteDeal
  \/ RunDiagnosis \/ UpdateActionStatus \/ SetReminder

SpecStoreCore == InitStore /\ [][NextStoreCore]_vars

(***************************************************************************)
(* Specification SpecPanel: re-runs asked from the diagnosis panel while   *)
(* the store is changed by other operations.  timers holds the timers      *)
(* that have not fired yet.                                                *)
(***************************************************************************)
HandleRunDiagnosis ==
  /\ ops < MaxOps
  /\ \E i \in DOMAIN deals :
       /\ \A t \in timers : t.id # deals[i].id
       /\ timers' = timers \cup {startTimer(deals[i])}
       /\ lastOp' = [op |-> "handleRunDiagnosis", id |-> deals[i].id]
  /\ ops' = ops + 1
  /\ UNCHANGED <<deals, uuid, issued, engineVars, rulesVars, unitVars, called, actionsVars>>

TimerFires ==
  /\ ops < MaxOps
  /\ \E timer \in timers :
       LET after == timerFires(deals, timer, uuid)
       IN /\ deals' = after
          /\ uuid' = uuid + uuidsOfRunDiagnosis(deals, timer.id, uuid)
          /\ issued' = IF find(deals, timer.id) = 0 THEN issued
                       ELSE issued \cup actionIds(dealWithId(after, timer.id).recommendedActions)
          /\ timers' = timers \ {timer}
          /\ lastOp' = [op |-> "timerFires", id |-> timer.id, requested |-> timer.requested]
  /\ ops' = ops + 1
  /\ UNCHANGED <<engineVars, rulesVars, unitVars, called, actionsVars>>

NextPanel ==
  \/ HandleRunDiagnosis \/ TimerFires
  \/ UpdateDeal \/ DeleteDeal \/ UpdateActionStatus \/ SetReminder

SpecPanel == InitStore /\ [][NextPanel]_vars

(***************************************************************************)
(* Properties.  The definitions below restate what the pipeline is to      *)
(* return without using its build loops, its comparators or its sorts.      *)
(***************************************************************************)
\* the rule matches of the snapshot, derived on their own
SnapshotMatches == evaluateRules(computeSignals(snapshot))

\* the rules of the catalog whose predicate holds of the snapshot
FiredRules ==
  {i \in 1..Len(DIAGNOSIS_RULES) : condition(DIAGNOSIS_RULES[i].id, computeSignals(snapshot))}

RuleIdsOf(matches) == [i \in 1..Len(matches) |-> matches[i].ruleId]

\* rank of a severity in the sort: critical, high, medium, low
SeverityRank(sev) ==
  CASE sev = "critical" -> -1 [] sev = "high" -> 0 [] sev = "medium" -> 1 [] sev = "low" -> 2

\* position of a code in the execution order
OrderIndex(c) ==
  CASE c = "SALES_PROCESS_GAPS" -> 0 [] c = "SINGLE_THREADED" -> 1
    [] c = "NO_ECONOMIC_BUYER" -> 2 [] c = "NO_BUSINESS_IMPACT" -> 3
    [] c = "WEAK_URGENCY" -> 4 [] c = "NO_NEW_VALUE" -> 5

\* lexicographic order on triples of integers
TripleLeq(x, y) ==
  \/ x[1] < y[1]
  \/ x[1] = y[1] /\ x[2] < y[2]
  \/ x[1] = y[1] /\ x[2] = y[2] /\ x[3] <= y[3]

\* the key of the sort: severity rank, execution-order index, confidence descending
SortKey(d) == <<SeverityRank(d.severity), OrderIndex(d.code), 0 - d.confidence>>

\* the key of a sort by execution order first
OrderFirstKey(d) == <<OrderIndex(d.code), SeverityRank(d.severity), 0 - d.confidence>>

\* the keys of the diagnoses of the matched codes, m being the rule matches
MatchedKeys(m) ==
  [c \in DOMAIN m |->
     <<SeverityRank(getHighestSeverity(m[c])), OrderIndex(c),
       0 - calculateConfidence(c, m[c])>>]

\* C1: a Diagnosis returned by diagnoseDeal has a code that is a key of
\* evaluateRules(computeSignals(deal)) with a non-empty match list, and its
\* matchedRules are the rule ids of that list, in order.
C1_PrimaryCodeIsMatched ==
  ("diagnoseDeal" \in called /\ primary # Null) =>
     LET m == SnapshotMatches
     IN /\ primary.code \in DOMAIN m
        /\ Len(m[primary.code]) > 0
        /\ primary.matchedRules = RuleIdsOf(m[primary.code])

C1_Witness ==
  /\ "diagnoseDeal" \in called
  /\ primary # Null
  /\ primary.code = "NO_ECONOMIC_BUYER"
  /\ primary.matchedRules = <<"EB-1", "EB-2", "EB-3">>
  /\ "SALES_PROCESS_GAPS" \notin DOMAIN SnapshotMatches

\* C2: diagnoseDeal returns null and getAllDiagnoses the empty list exactly
\* when no rule of the catalog matches the signals of the deal.
C2_NoneIffNoRuleMatches ==
  /\ "diagnoseDeal" \in called => (primary = Null <=> FiredRules = {})
  /\ "getAllDiagnoses" \in called => (listed = <<>> <=> FiredRules = {})

C2_Witness ==
  /\ called = {"diagnoseDeal", "getAllDiagnoses"}
  /\ primary = Null
  /\ listed = <<>>
  /\ FiredRules = {}

\* C3: every Diagnosis returned by diagnoseDeal or getAllDiagnoses has a
\* confidence between 0 and 1 (0..100 hundredths).
C3_ConfidenceInUnitInterval ==
  /\ ("diagnoseDeal" \in called /\ primary # Null) => primary.confidence \in 0..100
  /\ "getAllDiagnoses" \in called =>
        \A i \in 1..Len(listed) : listed[i].confidence \in 0..100

C3_Witness ==
  /\ called = {"diagnoseDeal", "getAllDiagnoses"}
  /\ primary # Null
  /\ Len(listed) = 3
  /\ \E i \in 1..Len(listed) : listed[i].confidence = 85

\* C6: the list of getAllDiagnoses is non-decreasing, pair by adjacent pair,
\* in the key (severity rank with critical = -1, high = 0, medium = 1, low = 2;
\* execution-order index; confidence descending), and diagnoseDeal returns
\* the minimum of that key over the diagnoses of the matched codes.
C6_SortedBySeverityOrderConfidence ==
  /\ "getAllDiagnoses" \in called =>
        \A i \in 1..(Len(listed) - 1) : TripleLeq(SortKey(listed[i]), SortKey(listed[i + 1]))
  /\ ("diagnoseDeal" \in called /\ primary # Null) =>
        LET keys == MatchedKeys(SnapshotMatches)
        IN /\ SortKey(primary) = keys[primary.code]
           /\ \A c \in DOMAIN keys : TripleLeq(SortKey(primary), keys[c])

C6_Witness ==
  /\ called = {"diagnoseDeal", "getAllDiagnoses"}
  /\ Len(listed) = 3
  /\ listed[1].severity = "high"
  /\ listed[2].severity = "medium"
  /\ OrderIndex(listed[1].code) > OrderIndex(listed[2].code)
  /\ primary # Null
  /\ primary.code = listed[1].code

C8_HardTruncationToThree ==
  "getAllDiagnoses" \in called =>
     LET m == SnapshotMatches
         keys == MatchedKeys(m)
         n == Cardinality(DOMAIN m)
         kept == {listed[i].code : i \in 1..Len(listed)}
     IN /\ Len(listed) <= 3
        /\ Len(listed) = (IF n < 3 THEN n ELSE 3)
        /\ kept \subseteq DOMAIN m
        /\ Cardinality(kept) = Len(listed)
        /\ \A i \in 1..Len(listed) :
              /\ SortKey(listed[i]) = keys[listed[i].code]
              /\ listed[i].matchedRules = RuleIdsOf(m[listed[i].code])
              /\ \A j \in 1..Len(listed) :
                    i < j => /\ TripleLeq(SortKey(listed[i]), SortKey(listed[j]))
                             /\ SortKey(listed[i]) # SortKey(listed[j])
              /\ \A c \in DOMAIN m \ kept :
                    /\ TripleLeq(SortKey(listed[i]), keys[c])
                    /\ SortKey(listed[i]) # keys[c]

C8_Witness ==
  /\ "getAllDiagnoses" \in called
  /\ DOMAIN SnapshotMatches = DiagnosisCode
  /\ Len(listed) = 3

\* C9: diagnoseDeal(deal) is element 0 of getAllDiagnoses(deal), field by
\* field, and is null exactly when getAllDiagnoses(deal) is empty.
C9_PrimaryIsFirstOfAll ==
  called = {"diagnoseDeal", "getAllDiagnoses"} =>
     /\ primary = Null <=> listed = <<>>
     /\ listed # <<>> =>
          /\ primary.code = listed[1].code
          /\ primary.severity = listed[1].severity
          /\ primary.confidence = listed[1].confidence
          /\ primary.evidence = listed[1].evidence
          /\ primary.matchedRules = listed[1].matchedRules
          /\ primary = listed[1]

C9_Witness ==
  /\ called = {"diagnoseDeal", "getAllDiagnoses"}
  /\ Len(listed) >= 2
  /\ primary = listed[1]
  /\ primary.code = "WEAK_URGENCY"
  /\ "SINGLE_THREADED" \in DOMAIN SnapshotMatches

\* number of entries of a list of rule matches that carry rule id r
Occurrences(matches, r) == Cardinality({i \in 1..Len(matches) : matches[i].ruleId = r})

\* base confidence of a code, in hundredths
StatedBase(c) ==
  CASE c = "SINGLE_THREADED" -> 60 [] c = "NO_ECONOMIC_BUYER" -> 70
    [] c = "NO_BUSINESS_IMPACT" -> 65 [] c = "NO_NEW_VALUE" -> 60
    [] c = "WEAK_URGENCY" -> 65 [] c = "SALES_PROCESS_GAPS" -> 70

\* sum of the rule bonuses over a list of rule matches, in hundredths
StatedBonuses(matches) ==
  10 * Occurrences(matches, "EB-2") + 15 * Occurrences(matches, "NV-2")
    + 10 * Occurrences(matches, "PG-3")

\* C4: calculateConfidence(code, matches) = min(1.0, base(code) + extra +
\* bonuses), extra being 0.1 x (matchCount - 1) for SINGLE_THREADED and
\* NO_BUSINESS_IMPACT only, bonuses the sum of +0.10 per EB-2, +0.15 per NV-2
\* and +0.10 per PG-3; EB-1, EB-2, EB-3 give NO_ECONOMIC_BUYER 0.8; a single
\* matched rule gives no extra-rule bonus.
C4_ConfidenceArithmetic ==
  ("calculateConfidence" \in called /\ unitCode # "") =>
     LET extra == IF unitCode \in {"SINGLE_THREADED", "NO_BUSINESS_IMPACT"}
                  THEN 10 * (Len(unitMatches) - 1) ELSE 0
         total == StatedBase(unitCode) + extra + StatedBonuses(unitMatches)
     IN /\ unitConfidence = (IF total > 100 THEN 100 ELSE total)
        /\ (unitCode = "NO_ECONOMIC_BUYER"
            /\ RuleIdsOf(unitMatches) = <<"EB-1", "EB-2", "EB-3">>) => unitConfidence = 80
        /\ Len(unitMatches) = 1 =>
             unitConfidence = StatedBase(unitCode) + StatedBonuses(unitMatches)

C4_Witness ==
  /\ "calculateConfidence" \in called
  /\ unitCode = "NO_ECONOMIC_BUYER"
  /\ RuleIdsOf(unitMatches) = <<"EB-1", "EB-2", "EB-3">>
  /\ unitConfidence = 80

\* the signal set with contactCount = 1, daysInStage = 20, the given value of
\* crossFunctionalContactPresent, and every other signal true
C5_Signals(crossFunctional) ==
  [ contactCount |-> 1,
    decisionMakerPresent |-> TRUE,
    crossFunctionalContactPresent |-> crossFunctional,
    daysSinceLastActivity |-> 20,
    daysInStage |-> 20,
    nextStepScheduled |-> TRUE,
    budgetDiscussed |-> TRUE,
    metricsMentioned |-> TRUE,
    newValueSentPostDemo |-> TRUE,
    timelineDefined |-> TRUE,
    consequenceOfInactionDefined |-> TRUE,
    discoverySummaryPresent |-> TRUE ]

\* what C5 expects of evaluateRules and calculateConfidence
C5_ThreeRulesAndEighty ==
  /\ "SINGLE_THREADED" \in DOMAIN matchMap
  /\ RuleIdsOf(matchMap["SINGLE_THREADED"]) = <<"ST-1", "ST-2", "ST-3">>
  /\ scores["SINGLE_THREADED"] = 80

\* C5 as stated: for contactCount = 1, daysInStage = 20 and all other signals
\* true, evaluateRules matches ST-1, ST-2 and ST-3 and the SINGLE_THREADED
\* confidence is 0.8.
C5_AllOtherSignalsTrue ==
  ("calculateConfidence" \in called /\ sigInput = C5_Signals(TRUE)) =>
     C5_ThreeRulesAndEighty

\* C5 (amended): for contactCount = 1, daysInStage = 20,
\* crossFunctionalContactPresent false and all other signals true,
\* evaluateRules matches ST-1, ST-2 and ST-3 and the SINGLE_THREADED
\* confidence is 0.6 + 0.1 x (3 - 1) = 0.8.
C5_NoCrossFunctionalContact ==
  ("calculateConfidence" \in called /\ sigInput = C5_Signals(FALSE)) =>
     C5_ThreeRulesAndEighty

C5_Witness ==
  /\ called = {"evaluateRules", "calculateConfidence"}
  /\ sigInput = C5_Signals(FALSE)
  /\ DOMAIN matchMap = {"SINGLE_THREADED"}
  /\ Len(matchMap["SINGLE_THREADED"]) = 3

\* C10: collectEvidence returns the evidence strings of the matched rules in
\* matched order, none twice: the k-th string returned is the string of the
\* k-th match whose string no earlier match has.
C10_EvidenceDeduplicatedInOrder ==
  ("collectEvidence" \in called /\ unitCode # "") =>
     LET known == {i \in 1..Len(unitMatches) : unitMatches[i].ruleId \in RuleIds}
         msg(i) == RULE_EVIDENCE[unitMatches[i].ruleId]
         first == {i \in known : \A j \in known : j < i => msg(j) # msg(i)}
     IN /\ Len(unitEvidence) = Cardinality(first)
        /\ \A k \in 1..Len(unitEvidence) : \A l \in 1..Len(unitEvidence) :
              k # l => unitEvidence[k] # unitEvidence[l]
        /\ \A i \in first :
              unitEvidence[Cardinality({j \in first : j < i}) + 1] = msg(i)

C10_Witness ==
  /\ "collectEvidence" \in called
  /\ RuleIdsOf(unitMatches) = <<"EB-1", "EB-2", "EB-1">>
  /\ unitEvidence = <<"No economic buyer identified",
                      "No economic buyer and stalled for 21+ days">>

(***************************************************************************)
(* Action generation (SpecActions)                                         *)
(***************************************************************************)
\* the action column of a list of recommended actions
actionNames(actions) == [i \in DOMAIN actions |-> actions[i].action]

TwoActionCodes ==
  {"SINGLE_THREADED", "NO_ECONOMIC_BUYER", "NO_BUSINESS_IMPACT", "WEAK_URGENCY", "NO_NEW_VALUE"}

ReminderName == "Set follow-up reminder"

\* C11: generateActions returns exactly the two actions "Complete sales
\* hygiene checklist" and "Set follow-up reminder", in this order, for a
\* SALES_PROCESS_GAPS diagnosis, and exactly three actions for a
\* SINGLE_THREADED diagnosis.
C11_ActionCountsPerCode ==
  genCalls >= 1 =>
    /\ genDiagnosis.code = "SALES_PROCESS_GAPS" =>
         actionNames(genActions) = <<"Complete sales hygiene checklist", ReminderName>>
    /\ genDiagnosis.code = "SINGLE_THREADED" => Len(genActions) = 3

\* a SINGLE_THREADED call right after a SALES_PROCESS_GAPS call: 2 + 3 identifiers
C11_Witness ==
  /\ genCalls = 2
  /\ genDiagnosis.code = "SINGLE_THREADED"
  /\ genTaken = 5

\* C12, as stated: for the two-action branches the returned list does not
\* contain the follow-up reminder, and for SALES_PROCESS_GAPS it does.
C12_ReminderDroppedForTwoActionBranches ==
  genCalls >= 1 =>
    /\ genDiagnosis.code \in TwoActionCodes =>
         \A i \in DOMAIN genActions : genActions[i].action # ReminderName
    /\ genDiagnosis.code = "SALES_PROCESS_GAPS" =>
         \E i \in DOMAIN genActions : genActions[i].action = ReminderName

\* C12, amended: for the two-action branches the returned list has three
\* entries and the follow-up reminder is the third; for SALES_PROCESS_GAPS
\* it is the second of two; the truncation to 3 drops nothing, every
\* identifier taken belongs to a returned action.
C12_ReminderKeptAsLastAction ==
  genCalls >= 1 =>
    /\ genDiagnosis.code \in TwoActionCodes =>
         Len(genActions) = 3 /\ genActions[3].action = ReminderName
    /\ genDiagnosis.code = "SALES_PROCESS_GAPS" =>
         Len(genActions) = 2 /\ genActions[2].action = ReminderName
    /\ \A i \in 1..(Len(genActions) - 1) : genActions[i].action # ReminderName
    /\ Cardinality(genIssued \cup actionIds(genActions)) = genTaken

C12_Witness ==
  /\ genCalls >= 1
  /\ genDiagnosis.code = "NO_BUSINESS_IMPACT"
  /\ Len(genActions) = 3

\* C13: for every diagnosis code generateActions returns between 1 and 3
\* actions, all pending, with pairwise distinct identifiers none of which
\* was returned by an earlier call.
C13_ActionsPendingDistinctFresh ==
  genCalls >= 1 =>
    /\ Len(genActions) \in 1..3
    /\ \A i \in DOMAIN genActions : genActions[i].status = "pending"
    /\ \A i, j \in DOMAIN genActions : i # j => genActions[i].id # genActions[j].id
    /\ actionIds(genActions) \cap genIssued = {}

C13_Witness ==
  /\ genCalls >= 3
  /\ genIssued # {}
  /\ genDiagnosis.code = "NO_NEW_VALUE"

(***************************************************************************)
(* The scenario of the empty discovery deal (Spec)                         *)
(***************************************************************************)
C15_Scenario ==
  /\ snapshot.stakeholders = <<>>
  /\ snapshot.stage = "discovery"
  /\ snapshot.notes = {}
  /\ snapshot.reminderDate = NoDate

\* C15: for the deal with no stakeholders, stage discovery, empty notes and
\* no reminder date, computeSignals gives contactCount 0, no decision maker
\* and every text-derived signal false; the matched rules include PG-1,
\* PG-2, PG-3, ST-3, EB-1, BI-1, BI-3, UR-1, UR-2 and NV-1; and diagnoseDeal
\* returns SALES_PROCESS_GAPS with severity high.
C15_EmptyDiscoveryDeal ==
  (C15_Scenario /\ "diagnoseDeal" \in called) =>
    LET s == computeSignals(snapshot)
        m == evaluateRules(s)
        matched == UNION {{m[c][i].ruleId : i \in 1..Len(m[c])} : c \in DOMAIN m}
    IN /\ s.contactCount = 0
       /\ ~s.decisionMakerPresent
       /\ ~s.nextStepScheduled /\ ~s.budgetDiscussed /\ ~s.metricsMentioned
       /\ ~s.newValueSentPostDemo /\ ~s.timelineDefined
       /\ ~s.consequenceOfInactionDefined /\ ~s.discoverySummaryPresent
       /\ {"PG-1", "PG-2", "PG-3", "ST-3", "EB-1", "BI-1", "BI-3", "UR-1", "UR-2", "NV-1"}
            \subseteq matched
       /\ primary # Null
       /\ primary.code = "SALES_PROCESS_GAPS"
       /\ primary.severity = "high"

C15_Witness ==
  /\ C15_Scenario
  /\ "diagnoseDeal" \in called
  /\ primary # Null
  /\ Len(primary.matchedRules) = 3

(***************************************************************************)
(* The rule catalog (SpecStore)                                            *)
(***************************************************************************)
\* C16: the catalog holds 18 rules with pairwise distinct identifiers, 3
\* for each of the 6 codes, each of severity high or medium; the execution
\* order, base confidence, bonus and evidence tables are those of the
\* source; and in every reachable state of the store the rules recorded in
\* a diagnosis are rules of this catalog for the diagnosis code.
C16_CatalogShape ==
  /\ Len(DIAGNOSIS_RULES) = 18
  /\ \A i, j \in 1..Len(DIAGNOSIS_RULES) :
       i # j => DIAGNOSIS_RULES[i].id # DIAGNOSIS_RULES[j].id
  /\ Cardinality(DiagnosisCode) = 6
  /\ \A c \in DiagnosisCode :
       Cardinality({i \in 1..Len(DIAGNOSIS_RULES) : DIAGNOSIS_RULES[i].code = c}) = 3
  /\ \A i \in 1..Len(DIAGNOSIS_RULES) : DIAGNOSIS_RULES[i].severity \in {"high", "medium"}
  /\ Len(DIAGNOSIS_EXECUTION_ORDER) = 6
  /\ {DIAGNOSIS_EXECUTION_ORDER[i] : i \in 1..6} = DiagnosisCode
  /\ DOMAIN BASE_CONFIDENCE = DiagnosisCode
  /\ DOMAIN CONFIDENCE_BONUSES \subseteq RuleIds
  /\ DOMAIN RULE_EVIDENCE = RuleIds /\ Cardinality(DOMAIN RULE_EVIDENCE) = 18
  /\ \A i \in DOMAIN deals :
       deals[i].diagnosis # Null =>
         \A k \in DOMAIN deals[i].diagnosis.matchedRules :
           \E r \in 1..Len(DIAGNOSIS_RULES) :
             /\ DIAGNOSIS_RULES[r].id = deals[i].diagnosis.matchedRules[k]
             /\ DIAGNOSIS_RULES[r].code = deals[i].diagnosis.code

\* a store whose last operation diagnosed a deal
C16_Witness ==
  /\ lastOp.op = "runDiagnosis"
  /\ ops >= 2
  /\ \E i \in DOMAIN deals : deals[i].id = lastOp.id /\ deals[i].diagnosis # Null

(***************************************************************************)
(* The store (SpecStore)                                                   *)
(***************************************************************************)
\* a step of the store that is the operation op
StoreStep(op) == ops' = ops + 1 /\ lastOp'.op = op

\* a deal without its diagnosis results
dealFrame(d) == [d EXCEPT !.diagnosis = Null, !.recommendedActions = <<>>]

\* a list of actions without the statuses
withoutStatus(actions) == [k \in DOMAIN actions |-> [actions[k] EXCEPT !.status = ""]]

\* a list of deals without the action identifiers
withoutActionIds(list) ==
  [i \in DOMAIN list |->
     [list[i] EXCEPT !.recommendedActions =
        [k \in DOMAIN list[i].recommendedActions |->
           [list[i].recommendedActions[k] EXCEPT !.id = ""]]]]

\* C14: runDiagnosis(id) applied twice with no operation in between leaves
\* the deal with the same diagnosis and the same action texts as after the
\* first run; the action identifiers of the second run are all new.
C14_RunTwiceSameContent ==
  [][ ( /\ StoreStep("runDiagnosis")
        /\ lastOp.op = "runDiagnosis"
        /\ lastOp'.id = lastOp.id
        /\ find(deals, lastOp.id) # 0 ) =>
      LET once == dealWithId(deals, lastOp.id)
          twice == dealWithId(deals', lastOp.id)
      IN /\ twice.diagnosis = once.diagnosis
         /\ actionTexts(twice.recommendedActions) = actionTexts(once.recommendedActions)
         /\ dealFrame(twice) = dealFrame(once)
         /\ once.recommendedActions # <<>> =>
              actionIds(twice.recommendedActions) \cap actionIds(once.recommendedActions) = {}
    ]_vars

\* the third operation repeats the second, a runDiagnosis of a deal that has actions
C14_Witness ==
  /\ ops = 3
  /\ lastOp.op = "runDiagnosis"
  /\ find(deals, lastOp.id) # 0
  /\ dealWithId(deals, lastOp.id).diagnosis # Null
  /\ Cardinality(issued) = 2 * Len(dealWithId(deals, lastOp.id).recommendedActions)
  /\ Len(deals) = 3
  /\ \A i \in DOMAIN deals :
       deals[i].id # lastOp.id => deals[i] = sampleDeals[i]

\* C17: runDiagnosis writes the store only by replacing diagnosis and
\* recommendedActions: the list keeps its length and order, and every other
\* field of every deal (stakeholders, notes, stage, daysInactive,
\* reminderDate, ...) is the same after the call as before.
C17_RunDiagnosisFrame ==
  [][ StoreStep("runDiagnosis") =>
      /\ Len(deals') = Len(deals)
      /\ \A i \in DOMAIN deals : dealFrame(deals'[i]) = dealFrame(deals[i])
    ]_vars

\* a deal with a reminder and stakeholders has been diagnosed
C17_Witness ==
  /\ lastOp.op = "runDiagnosis"
  /\ find(deals, lastOp.id) # 0
  /\ dealWithId(deals, lastOp.id).diagnosis # Null
  /\ dealWithId(deals, lastOp.id).reminderDate # NoDate
  /\ dealWithId(deals, lastOp.id).stakeholders # <<>>

\* C18: after runDiagnosis(id) of an existing deal the deal's diagnosis is
\* diagnoseDeal of the deal and its recommendedActions are the output of
\* generateActions for it (the empty list when there is no diagnosis): at
\* most 3 actions, all pending, none with an identifier handed out before.
C18_RerunReplaces ==
  [][ (StoreStep("runDiagnosis") /\ find(deals, lastOp'.id) # 0) =>
      LET before == dealWithId(deals, lastOp'.id)
          after == dealWithId(deals', lastOp'.id)
          fresh == IF after.diagnosis # Null
                   THEN generateActions(after.diagnosis, after, uuid)
                   ELSE <<>>
      IN /\ after.diagnosis = diagnoseDeal(after)
         /\ after.recommendedActions = fresh
         /\ Len(after.recommendedActions) <= 3
         /\ \A k \in DOMAIN after.recommendedActions :
              after.recommendedActions[k].status = "pending"
         /\ actionIds(after.recommendedActions) \cap issued = {}
         /\ actionIds(after.recommendedActions) \cap actionIds(before.recommendedActions) = {}
    ]_vars

\* a re-run: no deal was added or deleted, and more action identifiers
\* were handed out than the store holds
C18_Witness ==
  /\ lastOp.op = "runDiagnosis"
  /\ find(deals, lastOp.id) # 0
  /\ {deals[i].id : i \in DOMAIN deals} = {"1", "2", "3"}
  /\ Len(deals) = 3
  /\ dealWithId(deals, lastOp.id).recommendedActions # <<>>
  /\ issued \ UNION {actionIds(deals[i].recommendedActions) : i \in DOMAIN deals} # {}

\* C19, as stated: every operation other than addDeal and runDiagnosis
\* leaves the diagnosis of every deal it keeps unchanged, and its
\* recommendedActions unchanged in everything except status.
C19_OnlyStatusChangesOutsideRun ==
  [][ ( \/ StoreStep("updateDeal") \/ StoreStep("deleteDeal")
        \/ StoreStep("updateActionStatus") \/ StoreStep("setReminder") ) =>
      \A i \in DOMAIN deals :
        find(deals', deals[i].id) # 0 =>
          LET after == dealWithId(deals', deals[i].id)
          IN /\ after.diagnosis = deals[i].diagnosis
             /\ withoutStatus(after.recommendedActions) =
                  withoutStatus(deals[i].recommendedActions)
    ]_vars

\* C20: runDiagnosis(a) leaves every deal with another id unchanged, and
\* for every other deal b, running b after a ends in the same deals, up to
\* the action identifiers, as running a after b from the same store.
C20_RunsDoNotInteract ==
  [][ (StoreStep("runDiagnosis") /\ find(deals, lastOp'.id) # 0) =>
      LET a == lastOp'.id
      IN /\ Len(deals') = Len(deals)
         /\ \A i \in DOMAIN deals : deals[i].id # a => deals'[i] = deals[i]
         /\ \A b \in dealIds \ {a} :
              withoutActionIds(runDiagnosis(deals', b, uuid')) =
                withoutActionIds(
                  runDiagnosis(runDiagnosis(deals, b, uuid), a,
                               uuid + uuidsOfRunDiagnosis(deals, b, uuid)))
    ]_vars

\* two different deals have been diagnosed one after the other
C20_Witness ==
  /\ ops = 2
  /\ lastOp.op = "runDiagnosis"
  /\ Len(deals) = 3
  /\ Cardinality({i \in DOMAIN deals : deals[i].diagnosis # Null}) = 2
  /\ \A i \in DOMAIN deals : deals[i].reminderDate = NoDate

(***************************************************************************)
(* Severity of a list of matches (SpecUnit)                                *)
(***************************************************************************)
\* C21, as stated: for a non-empty list of matches with severities among
\* critical, high, medium and low, getHighestSeverity returns the severity
\* of the list that ranks highest under critical > high > medium > low; it
\* returns medium for the empty list.
C21_HighestOfFourLevels ==
  "getHighestSeverity" \in called =>
    IF unitMatches = <<>> THEN unitSeverity = "medium"
    ELSE /\ \E i \in 1..Len(unitMatches) : unitMatches[i].severity = unitSeverity
         /\ \A i \in 1..Len(unitMatches) :
              SeverityRank(unitSeverity) <= SeverityRank(unitMatches[i].severity)

(***************************************************************************)
(* Rule evaluation (SpecRules)                                             *)
(***************************************************************************)
\* the rules of code c whose predicate holds of the signal set, in catalog order
FiredOf(c, signals) ==
  LET fires(rule) == rule.code = c /\ condition(rule.id, signals)
  IN SelectSeq(DIAGNOSIS_RULES, fires)

\* C22: for every signal set and every code, the matches evaluateRules
\* returns for the code are the rules of that code whose predicate holds,
\* in catalog order, each with its severity; and the code is absent from
\* the result exactly when none of its rules fired, so no code maps to an
\* empty list.
C22_MatchesInCatalogOrder ==
  "evaluateRules" \in called =>
    /\ DOMAIN matchMap \subseteq DiagnosisCode
    /\ \A c \in DiagnosisCode :
         LET fired == FiredOf(c, sigInput)
         IN /\ (c \in DOMAIN matchMap) <=> (fired # <<>>)
            /\ c \in DOMAIN matchMap =>
                 matchMap[c] = [i \in 1..Len(fired) |->
                                  [ruleId |-> fired[i].id, severity |-> fired[i].severity]]

\* one code with its three rules matched, another with none
C22_Witness ==
  /\ "evaluateRules" \in called
  /\ "SINGLE_THREADED" \in DOMAIN matchMap
  /\ RuleIdsOf(matchMap["SINGLE_THREADED"]) = <<"ST-1", "ST-2", "ST-3">>
  /\ "NO_BUSINESS_IMPACT" \notin DOMAIN matchMap

(***************************************************************************)
(* Confidence values of the catalog (SpecRules)                            *)
(***************************************************************************)
\* the confidence of a code before the clamp, restated from the tables
Unclamped(c, matches) ==
  StatedBase(c) + StatedBonuses(matches)
    + (IF c \in {"SINGLE_THREADED", "NO_BUSINESS_IMPACT"} THEN 10 * (Len(matches) - 1) ELSE 0)

\* six signal sets, one for each confidence value
C25_Samples ==
  LET quiet == [C5_Signals(TRUE) EXCEPT !.daysInStage = 0, !.daysSinceLastActivity = 0]
  IN { quiet,
       C5_Signals(TRUE),
       C5_Signals(FALSE),
       [quiet EXCEPT !.contactCount = 3, !.metricsMentioned = FALSE],
       [quiet EXCEPT !.contactCount = 3, !.metricsMentioned = FALSE,
                     !.budgetDiscussed = FALSE],
       [quiet EXCEPT !.contactCount = 3, !.metricsMentioned = FALSE,
                     !.budgetDiscussed = FALSE,
                     !.daysInStage = 22, !.daysSinceLastActivity = 22] }

\* the confidences the pipeline computes for these signal sets
OccurringConfidences ==
  UNION {{calculateConfidence(c, evaluateRules(s)[c]) : c \in DOMAIN evaluateRules(s)} :
           s \in C25_Samples}

\* C25: for every signal set the confidence of every matched code before
\* the clamp is at most 0.85, so the clamp changes nothing; the confidences
\* that occur are exactly 0.60, 0.65, 0.70, 0.75, 0.80 and 0.85, and 0.85
\* occurs only for NO_BUSINESS_IMPACT with BI-1, BI-2 and BI-3 matched.
C25_UnclampedAtMostEightyFive ==
  /\ "calculateConfidence" \in called =>
       \A c \in DOMAIN scores :
         /\ Unclamped(c, matchMap[c]) <= 85
         /\ scores[c] = Unclamped(c, matchMap[c])
         /\ scores[c] \in {60, 65, 70, 75, 80, 85}
         /\ scores[c] = 85 =>
              c = "NO_BUSINESS_IMPACT" /\ RuleIdsOf(matchMap[c]) = <<"BI-1", "BI-2", "BI-3">>
  /\ C25_Samples \subseteq SignalInputs
  /\ OccurringConfidences = {60, 65, 70, 75, 80, 85}

C25_Witness ==
  /\ "calculateConfidence" \in called
  /\ "NO_BUSINESS_IMPACT" \in DOMAIN scores
  /\ scores["NO_BUSINESS_IMPACT"] = 85

(***************************************************************************)
(* Relations between the rules of a code (SpecRules)                       *)
(***************************************************************************)
\* the identifiers of all matched rules
MatchedIds ==
  UNION {{matchMap[c][i].ruleId : i \in 1..Len(matchMap[c])} : c \in DOMAIN matchMap}

\* C26: for every signal set PG-3 matches exactly when PG-1 and PG-2 both
\* match, so SALES_PROCESS_GAPS never has exactly two matched rules, its
\* confidence is 0.8 exactly when all three PG rules match and 0.7 when one
\* matches; and ST-2 implies ST-1, EB-2 implies EB-1, BI-2 and BI-3 imply
\* BI-1, UR-2 and UR-3 imply UR-1, NV-2 and NV-3 imply NV-1.
C26_RuleImplications ==
  "calculateConfidence" \in called =>
    LET ids == MatchedIds
        implies(a, b) == a \in ids => b \in ids
    IN /\ ("PG-3" \in ids) <=> ("PG-1" \in ids /\ "PG-2" \in ids)
       /\ "SALES_PROCESS_GAPS" \in DOMAIN matchMap =>
            /\ Len(matchMap["SALES_PROCESS_GAPS"]) # 2
            /\ (scores["SALES_PROCESS_GAPS"] = 80) <=> (Len(matchMap["SALES_PROCESS_GAPS"]) = 3)
            /\ Len(matchMap["SALES_PROCESS_GAPS"]) = 1 => scores["SALES_PROCESS_GAPS"] = 70
       /\ implies("ST-2", "ST-1")
       /\ implies("EB-2", "EB-1")
       /\ implies("BI-2", "BI-1") /\ implies("BI-3", "BI-1")
       /\ implies("UR-2", "UR-1") /\ implies("UR-3", "UR-1")
       /\ implies("NV-2", "NV-1") /\ implies("NV-3", "NV-1")

\* PG-2 alone: one matched rule and confidence 0.7
C26_Witness ==
  /\ "calculateConfidence" \in called
  /\ "SALES_PROCESS_GAPS" \in DOMAIN matchMap
  /\ RuleIdsOf(matchMap["SALES_PROCESS_GAPS"]) = <<"PG-2">>
  /\ scores["SALES_PROCESS_GAPS"] = 70

(***************************************************************************)
(* The part of the confidence in the sort (Spec)                           *)
(***************************************************************************)
CodesOf(diagnoses) == [i \in 1..Len(diagnoses) |-> diagnoses[i].code]

\* diagnoses with every confidence c replaced by 1 - c, and by 0
Reversed(diagnoses) ==
  [i \in 1..Len(diagnoses) |-> [diagnoses[i] EXCEPT !.confidence = 100 - @]]

Levelled(diagnoses) ==
  [i \in 1..Len(diagnoses) |-> [diagnoses[i] EXCEPT !.confidence = 0]]

\* C24: the confidence never decides the order. The codes of the list of
\* getAllDiagnoses are pairwise distinct, every entry is strictly before
\* the next in (severity rank, execution-order index), and sorting the
\* diagnoses of the matched codes with every confidence replaced by another
\* value gives the same order of codes, for the list and for the primary
\* diagnosis.
C24_ConfidenceNeverDecides ==
  called # {} =>
    LET built == getAllDiagnosesBuild(1, SnapshotMatches, snapshot, <<>>)
        reversed == getAllDiagnosesSort(Reversed(built))
        levelled == getAllDiagnosesSort(Levelled(built))
    IN /\ "getAllDiagnoses" \in called =>
            /\ \A i, j \in 1..Len(listed) : i # j => listed[i].code # listed[j].code
            /\ \A i \in 1..(Len(listed) - 1) :
                 \/ SeverityRank(listed[i].severity) < SeverityRank(listed[i + 1].severity)
                 \/ /\ SeverityRank(listed[i].severity) = SeverityRank(listed[i + 1].severity)
                    /\ OrderIndex(listed[i].code) < OrderIndex(listed[i + 1].code)
            /\ CodesOf(slice(reversed, 3)) = CodesOf(listed)
            /\ CodesOf(slice(levelled, 3)) = CodesOf(listed)
       /\ ("diagnoseDeal" \in called /\ primary # Null) =>
            /\ diagnoseDealSort(Reversed(built))[1].code = primary.code
            /\ diagnoseDealSort(Levelled(built))[1].code = primary.code

\* two neighbours of equal severity, the later with the higher confidence
C24_Witness ==
  /\ called = {"diagnoseDeal", "getAllDiagnoses"}
  /\ primary # Null
  /\ Len(listed) = 3
  /\ \E i \in 1..2 : /\ listed[i].severity = listed[i + 1].severity
                     /\ listed[i].confidence < listed[i + 1].confidence

(***************************************************************************)
(* Stages and the empty result (Spec)                                      *)
(***************************************************************************)
\* C27: diagnoseDeal returns none, and getAllDiagnoses the empty list, only
\* for deals in stage demo, proposal or negotiation; for a deal in stage
\* discovery, closed_won or closed_lost newValueSentPostDemo is false
\* whatever the notes, NV-1 matches, and a diagnosis is returned.
C27_NoneOnlyAfterDemo ==
  called # {} =>
    LET m == SnapshotMatches
        postDemo == snapshot.stage \in {"demo", "proposal", "negotiation"}
    IN /\ ("diagnoseDeal" \in called /\ primary = Null) => postDemo
       /\ ("getAllDiagnoses" \in called /\ listed = <<>>) => postDemo
       /\ ~postDemo =>
            /\ ~computeSignals(snapshot).newValueSentPostDemo
            /\ "NO_NEW_VALUE" \in DOMAIN m
            /\ m["NO_NEW_VALUE"][1].ruleId = "NV-1"
            /\ "diagnoseDeal" \in called => primary # Null
            /\ "getAllDiagnoses" \in called => listed # <<>>

\* a closed deal whose notes hold every keyword: NO_NEW_VALUE is all that is left
C27_Witness ==
  /\ called = {"diagnoseDeal", "getAllDiagnoses"}
  /\ snapshot.stage = "closed_won"
  /\ snapshot.notes = NoteWords
  /\ primary # Null
  /\ primary.code = "NO_NEW_VALUE"
  /\ Len(listed) = 1

(***************************************************************************)
(* Reminders and diagnosis runs (SpecStore)                                *)
(***************************************************************************)
\* C23: when runDiagnosis(id) runs on a deal whose reminder date is set,
\* nextStepScheduled is true whatever the notes, PG-2 and PG-3 are not
\* matched, and a SALES_PROCESS_GAPS diagnosis, if that is the result, has
\* severity medium, confidence 0.7 and matchedRules = [PG-1].
C23_ReminderSchedulesNextStep ==
  [][ ( /\ StoreStep("runDiagnosis")
        /\ find(deals, lastOp'.id) # 0
        /\ dealWithId(deals, lastOp'.id).reminderDate # NoDate ) =>
      LET after == dealWithId(deals', lastOp'.id)
          signals == computeSignals(after)
          m == evaluateRules(signals)
      IN /\ signals.nextStepScheduled
         /\ "SALES_PROCESS_GAPS" \in DOMAIN m =>
              RuleIdsOf(m["SALES_PROCESS_GAPS"]) = <<"PG-1">>
         /\ (after.diagnosis # Null /\ after.diagnosis.code = "SALES_PROCESS_GAPS") =>
              /\ after.diagnosis.severity = "medium"
              /\ after.diagnosis.confidence = 70
              /\ after.diagnosis.matchedRules = <<"PG-1">>
    ]_vars

\* setReminder with a date, then runDiagnosis of the same deal, which has
\* no next step in its notes: the result is SALES_PROCESS_GAPS by PG-1 alone
C23_Witness ==
  /\ lastOp.op = "runDiagnosis"
  /\ find(deals, lastOp.id) # 0
  /\ dealWithId(deals, lastOp.id).reminderDate # NoDate
  /\ ~test(NextStepKeywords, dealWithId(deals, lastOp.id).notes)
  /\ dealWithId(deals, lastOp.id).diagnosis # Null
  /\ dealWithId(deals, lastOp.id).diagnosis.code = "SALES_PROCESS_GAPS"

\* C29: setReminder(dealId, date) changes only the reminderDate of the
\* deal with that id; its diagnosis and recommendedActions and every other
\* deal are unchanged, no identifier is taken, and a dealId that matches no
\* deal leaves the store unchanged.
C29_SetReminderFrame ==
  [][ StoreStep("setReminder") =>
      /\ Len(deals') = Len(deals)
      /\ \A i \in DOMAIN deals :
           IF deals[i].id = lastOp'.id
           THEN deals'[i] = [deals[i] EXCEPT !.reminderDate = deals'[i].reminderDate]
           ELSE deals'[i] = deals[i]
      /\ find(deals, lastOp'.id) = 0 => deals' = deals
      /\ uuid' = uuid /\ issued' = issued
    ]_vars

\* a reminder was set on a diagnosed deal: the stored diagnosis still lists
\* PG-2 and is no longer diagnoseDeal of the deal
C29_Witness ==
  /\ lastOp.op = "setReminder"
  /\ find(deals, lastOp.id) # 0
  /\ LET deal == dealWithId(deals, lastOp.id)
     IN /\ deal.reminderDate # NoDate
        /\ deal.diagnosis # Null
        /\ \E k \in DOMAIN deal.diagnosis.matchedRules : deal.diagnosis.matchedRules[k] = "PG-2"
        /\ deal.diagnosis # diagnoseDeal(deal)

(***************************************************************************)
(* The store without updateDeal (SpecStoreCore)                            *)
(***************************************************************************)
\* C28: in every state reached from the sample deals by addDeal,
\* runDiagnosis, updateActionStatus, setReminder and deleteDeal, a deal
\* without diagnosis has no recommended action, and a deal with a diagnosis
\* has between 1 and 3, with pairwise distinct identifiers.
C28_ActionsFollowDiagnosis ==
  \A i \in DOMAIN deals :
    LET actions == deals[i].recommendedActions
    IN IF deals[i].diagnosis = Null
       THEN actions = <<>>
       ELSE /\ Len(actions) \in 1..3
            /\ \A j, k \in DOMAIN actions : j # k => actions[j].id # actions[k].id

\* an added deal without diagnosis next to a diagnosed deal with an action under way
C28_Witness ==
  /\ Len(deals) = 4
  /\ deals[4].diagnosis = Null
  /\ \E i \in 1..3 :
       /\ deals[i].diagnosis # Null
       /\ \E k \in DOMAIN deals[i].recommendedActions :
            deals[i].recommendedActions[k].status = "in_progress"

(***************************************************************************)
(* The deferred re-run (SpecPanel)                                         *)
(***************************************************************************)
\* C30: when the timer of a re-run fires, runDiagnosis reads the deal from
\* the store as it is then: if the deal was deleted meanwhile the store is
\* unchanged, and otherwise the diagnosis stored is diagnoseDeal of the
\* stored deal, the fields changed meanwhile are kept, and no other deal
\* changes.
C30_DeferredRunReadsStore ==
  [][ StoreStep("timerFires") =>
      IF find(deals, lastOp'.id) = 0 THEN deals' = deals
      ELSE LET current == dealWithId(deals, lastOp'.id)
               after == dealWithId(deals', lastOp'.id)
           IN /\ after.diagnosis = diagnoseDeal(current)
              /\ dealFrame(after) = dealFrame(current)
              /\ Len(deals') = Len(deals)
              /\ \A i \in DOMAIN deals : deals[i].id # lastOp'.id => deals'[i] = deals[i]
    ]_vars

\* the deal was changed while the timer was pending, and the diagnosis
\* stored is not the one of the deal the panel showed
C30_Witness ==
  /\ lastOp.op = "timerFires"
  /\ find(deals, lastOp.id) # 0
  /\ dealFrame(dealWithId(deals, lastOp.id)) # dealFrame(lastOp.requested)
  /\ dealWithId(deals, lastOp.id).diagnosis # diagnoseDeal(lastOp.requested)

=============================================================================
